---- MODULE Spec2Model ----
(***************************************************************************)
(* Model of the ST-Link host driver (swd/stlink.py): construction of a     *)
(* session (version handshake, mode exit, SWD frequency, enter SWD) and    *)
(* the memory access operations, over a recording transport; and of the    *)
(* identification of an STM32 part (swd/devices/stm32.py) against a        *)
(* family's catalog.                                                       *)
(***************************************************************************)
EXTENDS Integers, Sequences, FiniteSets, TLC

VARIABLES
    pc,             \* position in Stlink.__init__ / "ready" / "failed"
    com_version,    \* self._com.version: generation tag of the transport
    swd_frequency,  \* the swd_frequency argument of Stlink.__init__
    version,        \* self._version (StlinkVersion)
    log,            \* every call of self._com.xfer, in order, with its result
    err,            \* the exception that left the running operation
    last,           \* the memory operation called on the session, if any
    ran,            \* the method of the constructor that ran last
    _IDCODE_REG,    \* Stm32._IDCODE_REG of the family class
    _FLASH_SIZE_REG, \* Stm32._FLASH_SIZE_REG of the family class
    _MCUS,          \* Stm32._MCUS: the catalog of the family class
    expected_mcus,  \* the expected_mcus argument of Stm32.__init__
    _mcus,          \* self._mcus of the Stm32 object
    _flash_size,    \* self._flash_size of the Stm32 object
    reads,          \* every read of the target through self.swd, in order
    called,         \* the method of Stm32 called last, with what it returned
    svd_loaded      \* the files given to self.swd.load_svd, in order

stlinkvars == <<pc, com_version, swd_frequency, version, log, err, last, ran>>

mcuvars ==
    <<_IDCODE_REG, _FLASH_SIZE_REG, _MCUS, expected_mcus, _mcus, _flash_size,
      reads, called, svd_loaded>>

vars == <<stlinkvars, mcuvars>>

\* ------------------------------------------------------------------------
\* Python values
\* ------------------------------------------------------------------------

\* Python None for the optional integer values (dict.get, default argument)
None == 0 - 1

Truthy(x) == x # None /\ x # 0

Min(a, b) == IF a < b THEN a ELSE b

\* seq[a:b] of Python, 0-based, clipped to the length of seq
Slice(seq, a, b) ==
    LET hi == Min(b, Len(seq))
    IN  IF a >= hi THEN <<>> ELSE [j \in 1..(hi - a) |-> seq[a + j]]

RECURSIVE FromBytesLE(_)
\* int.from_bytes(bytes, byteorder='little')
FromBytesLE(bytes) ==
    IF bytes = <<>> THEN 0
    ELSE Head(bytes) + 256 * FromBytesLE(Tail(bytes))

RECURSIVE FromBytesBE(_)
\* int.from_bytes(bytes, byteorder='big')
FromBytesBE(bytes) ==
    IF bytes = <<>> THEN 0
    ELSE 256 * FromBytesBE(SubSeq(bytes, 1, Len(bytes) - 1)) + bytes[Len(bytes)]

\* number.to_bytes(4, byteorder='little') is defined for 0 <= number < 2^32
FitsU32(number) == number >= 0 /\ (number \div 16777216) < 256

\* list(number.to_bytes(4, byteorder='little'))
\* to_bytes(4, byteorder='big')
ToBytesLE4_BigEndian(number) ==
    << (number \div 16777216) % 256,
       (number \div 65536) % 256,
       (number \div 256) % 256,
       number % 256 >>

ToBytesLE4(number) ==
    << number % 256,
       (number \div 256) % 256,
       (number \div 65536) % 256,
       (number \div 16777216) % 256 >>

\* ------------------------------------------------------------------------
\* Stlink.CMD
\* ------------------------------------------------------------------------
GET_VERSION == 241
GET_CURRENT_MODE == 245
GET_TARGET_VOLTAGE == 247
GET_VERSION_EX == 251

MODE_DFU == 0
MODE_MASS == 1
MODE_DEBUG == 2
MODE_SWIM == 3
MODE_BOOTLOADER == 4

DFU_EXIT == 7
DFU_COMMAND == 243
SWIM_EXIT == 1
SWIM_COMMAND == 244

DEBUG_READMEM_32BIT == 7
DEBUG_WRITEMEM_32BIT == 8
DEBUG_READMEM_8BIT == 12
DEBUG_WRITEMEM_8BIT == 13
DEBUG_EXIT == 33
DEBUG_ENTER_SWD == 163
DEBUG_COMMAND == 242

APIV2_ENTER == 48
APIV2_READ_IDCODES == 49
APIV2_WRITEDEBUGREG == 53
APIV2_READDEBUGREG == 54
APIV2_SWD_SET_FREQ == 67
APIV2_READMEM_16BIT == 71
APIV2_WRITEMEM_16BIT == 72

APIV3_SET_COM_FREQ == 97
APIV3_GET_COM_FREQ == 98

\* ------------------------------------------------------------------------
\* Exceptions
\* ------------------------------------------------------------------------
NoErr == [cls |-> "", msg |-> ""]

Exc(cls, msg) == [cls |-> cls, msg |-> msg]

StlinkException(msg) == Exc("StlinkException", msg)

\* raised by the transport's xfer on an USB fault
TransportError == Exc("TransportError", "USB fault")

\* ------------------------------------------------------------------------
\* The transport: one entry of the log per call of self._com.xfer
\* ------------------------------------------------------------------------

\* self._com.xfer(tx, rx_length=rx_length) answered by res
XferRx(tx, rx_length, res) ==
    [tx |-> tx, data |-> <<>>, has_data |-> FALSE,
     rx_length |-> rx_length, ok |-> TRUE, res |-> res]

\* self._com.xfer(tx) with neither data nor rx_length
XferCmd(tx) ==
    [tx |-> tx, data |-> <<>>, has_data |-> FALSE,
     rx_length |-> None, ok |-> TRUE, res |-> <<>>]

\* self._com.xfer(tx, data=data)
XferData(tx, data) ==
    [tx |-> tx, data |-> data, has_data |-> TRUE,
     rx_length |-> None, ok |-> TRUE, res |-> <<>>]

\* the same call raising TransportError
Faulted(xfer) == [xfer EXCEPT !.ok = FALSE, !.res = <<>>]

\* ------------------------------------------------------------------------
\* Stlink.StlinkVersion
\* ------------------------------------------------------------------------

\* the version dict before StlinkVersion reads it with dict.get
EmptyVersion ==
    [stlink |-> None, jtag |-> None, swim |-> None, mass |-> None,
     api |-> None, bridge |-> None, dev |-> "", str |-> ""]

\* f"{prefix}{value}" appended only when the value is truthy
StrPart(prefix, value) ==
    IF Truthy(value) THEN prefix \o ToString(value) ELSE ""

\* StlinkVersion.__init__(version)
StlinkVersion(v) ==
    [v EXCEPT !.str =
        "ST-Link/" \o v.dev \o " V" \o ToString(v.stlink)
        \o StrPart("J", v.jtag) \o StrPart("S", v.swim)
        \o StrPart("M", v.mass) \o StrPart("B", v.bridge)]

\* ------------------------------------------------------------------------
\* Construction: the methods Stlink.__init__ calls, as functions of the
\* transport's replies.  A reply is [ok, res]: ok = FALSE is a TransportError.
\* Each returns the xfer calls it made, the exception it raised (NoErr when
\* it returned) and its value.
\* ------------------------------------------------------------------------
Reply(res) == [ok |-> TRUE, res |-> res]

Fault == [ok |-> FALSE, res |-> <<>>]

\* the log entry of self._com.xfer(tx, rx_length=rx_length) under reply r
Answered(tx, rx_length, r) ==
    IF r.ok THEN XferRx(tx, rx_length, r.res)
    ELSE Faulted(XferRx(tx, rx_length, <<>>))

Outcome(xfers, exc, value) == [xfers |-> xfers, exc |-> exc, value |-> value]

\* _read_version reading the version word with byteorder='little'
_read_version_LittleEndian(dev, r, r_ex) ==
    LET x1 == Answered(<<GET_VERSION, 128>>, 6, r)
        ver == FromBytesLE(Slice(r.res, 0, 2))
        ver_stlink == (ver \div 4096) % 16
        base == [EmptyVersion EXCEPT !.stlink = ver_stlink, !.dev = dev]
        jtag == (ver \div 64) % 64
        v2 == [base EXCEPT !.jtag = jtag,
                           !.api = IF jtag <= 11 THEN 1 ELSE 2,
                           !.swim = IF dev = "V2" THEN ver % 64 ELSE None,
                           !.mass = IF dev = "V2-1" THEN ver % 64 ELSE None]
        x2 == Answered(<<GET_VERSION_EX, 128>>, 16, r_ex)
        v3 == [base EXCEPT !.api = 3,
                           !.swim = r_ex.res[2],
                           !.jtag = r_ex.res[3],
                           !.mass = r_ex.res[4],
                           !.bridge = r_ex.res[5]]
    IN  IF ~r.ok THEN Outcome(<<x1>>, TransportError, EmptyVersion)
        ELSE IF ver_stlink = 2 THEN Outcome(<<x1>>, NoErr, StlinkVersion(v2))
        ELSE IF ver_stlink = 3 THEN
            IF ~r_ex.ok THEN Outcome(<<x1, x2>>, TransportError, EmptyVersion)
            ELSE Outcome(<<x1, x2>>, NoErr, StlinkVersion(v3))
        ELSE Outcome(<<x1>>, NoErr, StlinkVersion(base))

\* Stlink._read_version
_read_version(dev, r, r_ex) ==
    LET x1 == Answered(<<GET_VERSION, 128>>, 6, r)
        ver == FromBytesBE(Slice(r.res, 0, 2))
        ver_stlink == (ver \div 4096) % 16
        base == [EmptyVersion EXCEPT !.stlink = ver_stlink, !.dev = dev]
        jtag == (ver \div 64) % 64
        v2 == [base EXCEPT !.jtag = jtag,
                           !.api = IF jtag <= 11 THEN 1 ELSE 2,
                           !.swim = IF dev = "V2" THEN ver % 64 ELSE None,
                           !.mass = IF dev = "V2-1" THEN ver % 64 ELSE None]
        x2 == Answered(<<GET_VERSION_EX, 128>>, 16, r_ex)
        v3 == [base EXCEPT !.api = 3,
                           !.swim = r_ex.res[2],
                           !.jtag = r_ex.res[3],
                           !.mass = r_ex.res[4],
                           !.bridge = r_ex.res[5]]
    IN  IF ~r.ok THEN Outcome(<<x1>>, TransportError, EmptyVersion)
        ELSE IF ver_stlink = 2 THEN Outcome(<<x1>>, NoErr, StlinkVersion(v2))
        ELSE IF ver_stlink = 3 THEN
            IF ~r_ex.ok THEN Outcome(<<x1, x2>>, TransportError, EmptyVersion)
            ELSE Outcome(<<x1, x2>>, NoErr, StlinkVersion(v3))
        ELSE Outcome(<<x1>>, NoErr, StlinkVersion(base))

\* LeaveCommand with the exits of DEBUG and SWIM exchanged
LeaveCommand_Swapped(mode) ==
    IF mode = MODE_DFU THEN <<DFU_COMMAND, DFU_EXIT>>
    ELSE IF mode = MODE_DEBUG THEN <<SWIM_COMMAND, SWIM_EXIT>>
    ELSE IF mode = MODE_SWIM THEN <<DEBUG_COMMAND, DEBUG_EXIT>>
    ELSE <<>>

\* the exit command _leave_state sends for mode byte res[0]; <<>> for none
LeaveCommand(mode) ==
    IF mode = MODE_DFU THEN <<DFU_COMMAND, DFU_EXIT>>
    ELSE IF mode = MODE_DEBUG THEN <<DEBUG_COMMAND, DEBUG_EXIT>>
    ELSE IF mode = MODE_SWIM THEN <<SWIM_COMMAND, SWIM_EXIT>>
    ELSE <<>>

\* Stlink._leave_state
_leave_state(r, exit_ok) ==
    LET x1 == Answered(<<GET_CURRENT_MODE>>, 2, r)
        cmd == LeaveCommand(r.res[1])
        x2 == XferCmd(cmd)
    IN  IF ~r.ok THEN Outcome(<<x1>>, TransportError, None)
        ELSE IF cmd = <<>> THEN Outcome(<<x1>>, NoErr, None)
        ELSE IF ~exit_ok THEN Outcome(<<x1, Faulted(x2)>>, TransportError, None)
        ELSE Outcome(<<x1, x2>>, NoErr, None)

\* OutdatedStlinkFirmware(current_version, minimal_version)
OutdatedStlinkFirmware(current_version, minimal_version) ==
    Exc("OutdatedStlinkFirmware",
        "Outdated FW: " \o current_version \o ", require: "
        \o minimal_version \o ".")

\* Stlink._SWD_FREQ: (frequency, data) in the order of the tuple
_SWD_FREQ ==
    << <<4000000, 0>>, <<1800000, 1>>, <<1200000, 2>>, <<950000, 3>>,
       <<480000, 7>>, <<240000, 15>>, <<125000, 31>>, <<100000, 40>>,
       <<50000, 79>>, <<25000, 158>> >>

RECURSIVE FirstRow_Strict(_, _)
\* FirstRow comparing with > instead of >=
FirstRow_Strict(frequency, k) ==
    IF k > Len(_SWD_FREQ) THEN 0
    ELSE IF frequency > _SWD_FREQ[k][1] THEN k
    ELSE FirstRow_Strict(frequency, k + 1)

RECURSIVE FirstRow(_, _)
\* the for loop of _set_swd_freq_v2 from row k on: the index of the first row
\* with swd_frequency >= freq, 0 when the loop ends without one
FirstRow(frequency, k) ==
    IF k > Len(_SWD_FREQ) THEN 0
    ELSE IF frequency >= _SWD_FREQ[k][1] THEN k
    ELSE FirstRow(frequency, k + 1)

\* _set_swd_freq_v2 returning without the test of res[0]
_set_swd_freq_v2_NoStatus(ver, frequency, r) ==
    LET k == FirstRow(frequency, 1)
        cmd == <<DEBUG_COMMAND, APIV2_SWD_SET_FREQ, _SWD_FREQ[k][2]>>
        x1 == Answered(cmd, 2, r)
    IN  IF ver.jtag < 22 THEN
            Outcome(<<>>, OutdatedStlinkFirmware(ver.str, "J22"), None)
        ELSE IF k = 0 THEN
            Outcome(<<>>, StlinkException("Selected SWD frequency is too low"),
                    None)
        ELSE IF ~r.ok THEN Outcome(<<x1>>, TransportError, None)
        ELSE Outcome(<<x1>>, NoErr, None)

\* _set_swd_freq_v2 with the gate jtag <= 22
_set_swd_freq_v2_GateOffByOne(ver, frequency, r) ==
    LET k == FirstRow(frequency, 1)
        cmd == <<DEBUG_COMMAND, APIV2_SWD_SET_FREQ, _SWD_FREQ[k][2]>>
        x1 == Answered(cmd, 2, r)
    IN  IF ver.jtag <= 22 THEN
            Outcome(<<>>, OutdatedStlinkFirmware(ver.str, "J22"), None)
        ELSE IF k = 0 THEN
            Outcome(<<>>, StlinkException("Selected SWD frequency is too low"),
                    None)
        ELSE IF ~r.ok THEN Outcome(<<x1>>, TransportError, None)
        ELSE IF r.res[1] # 128 THEN
            Outcome(<<x1>>, StlinkException("Error switching SWD frequency"),
                    None)
        ELSE Outcome(<<x1>>, NoErr, None)

\* Stlink._set_swd_freq_v2
_set_swd_freq_v2(ver, frequency, r) ==
    LET k == FirstRow(frequency, 1)
        cmd == <<DEBUG_COMMAND, APIV2_SWD_SET_FREQ, _SWD_FREQ[k][2]>>
        x1 == Answered(cmd, 2, r)
    IN  IF ver.jtag < 22 THEN
            Outcome(<<>>, OutdatedStlinkFirmware(ver.str, "J22"), None)
        ELSE IF k = 0 THEN
            Outcome(<<>>, StlinkException("Selected SWD frequency is too low"),
                    None)
        ELSE IF ~r.ok THEN Outcome(<<x1>>, TransportError, None)
        ELSE IF r.res[1] # 128 THEN
            Outcome(<<x1>>, StlinkException("Error switching SWD frequency"),
                    None)
        ELSE Outcome(<<x1>>, NoErr, None)

\* the while loop of _set_swd_freq_v3: <<i, freq_khz>> when it ends
RECURSIVE ComFreqLoop(_, _, _, _)
ComFreqLoop(res, frequency, i, freq_khz) ==
    IF ~(i < res[9]) THEN <<i, freq_khz>>
    ELSE LET khz == FromBytesLE(Slice(res, 12 + 4 * i, 15 + 4 * i))
         IN  IF frequency \div 1000 >= khz THEN <<i, khz>>
             ELSE ComFreqLoop(res, frequency, i + 1, khz)

\* Stlink._set_swd_freq_v3
\* _set_swd_freq_v3 without the test of the SET_COM_FREQ status
_set_swd_freq_v3_NoStatus(ver, frequency, r_get, r_set) ==
    LET x1 == Answered(<<DEBUG_COMMAND, APIV3_GET_COM_FREQ, 0>>, 52, r_get)
        found == ComFreqLoop(r_get.res, frequency, 0, 0)
        i == found[1]
        freq_khz == found[2]
        cmd == <<DEBUG_COMMAND, APIV3_SET_COM_FREQ, 0, 0>>
               \o ToBytesLE4(freq_khz)
        x2 == Answered(cmd, 2, r_set)
    IN  IF ver.api < 3 THEN
            Outcome(<<>>, OutdatedStlinkFirmware(ver.str, "V3"), None)
        ELSE IF ~r_get.ok THEN Outcome(<<x1>>, TransportError, None)
        ELSE IF i = r_get.res[9] THEN
            Outcome(<<x1>>, StlinkException("Requested SWD frequency is too low"),
                    None)
        ELSE IF ~r_set.ok THEN Outcome(<<x1, x2>>, TransportError, None)
        ELSE Outcome(<<x1, x2>>, NoErr, None)

_set_swd_freq_v3(ver, frequency, r_get, r_set) ==
    LET x1 == Answered(<<DEBUG_COMMAND, APIV3_GET_COM_FREQ, 0>>, 52, r_get)
        found == ComFreqLoop(r_get.res, frequency, 0, 0)
        i == found[1]
        freq_khz == found[2]
        cmd == <<DEBUG_COMMAND, APIV3_SET_COM_FREQ, 0, 0>>
               \o ToBytesLE4(freq_khz)
        x2 == Answered(cmd, 2, r_set)
    IN  IF ver.api < 3 THEN
            Outcome(<<>>, OutdatedStlinkFirmware(ver.str, "V3"), None)
        ELSE IF ~r_get.ok THEN Outcome(<<x1>>, TransportError, None)
        ELSE IF i = r_get.res[9] THEN
            Outcome(<<x1>>, StlinkException("Requested SWD frequency is too low"),
                    None)
        ELSE IF ~r_set.ok THEN Outcome(<<x1, x2>>, TransportError, None)
        ELSE IF r_set.res[1] # 128 THEN
            Outcome(<<x1, x2>>,
                    StlinkException("Error switching SWD frequency"), None)
        ELSE Outcome(<<x1, x2>>, NoErr, None)

\* Stlink._set_swd_freq
_set_swd_freq(ver, frequency, r_get, r_set) ==
    IF ver.stlink = 2 THEN _set_swd_freq_v2(ver, frequency, r_set)
    ELSE IF ver.stlink = 3 THEN _set_swd_freq_v3(ver, frequency, r_get, r_set)
    ELSE Outcome(<<>>, NoErr, None)

\* Stlink._enter_debug_swd
_enter_debug_swd(r) ==
    LET x1 == Answered(<<DEBUG_COMMAND, APIV2_ENTER, DEBUG_ENTER_SWD>>, 2, r)
    IN  IF ~r.ok THEN Outcome(<<x1>>, TransportError, None)
        ELSE Outcome(<<x1>>, NoErr, None)

\* ------------------------------------------------------------------------
\* Inputs: the arguments of the constructor and the replies of the probe
\* ------------------------------------------------------------------------

\* largest jtag field (6 bits) of the GET_VERSION words tried
MaxJtagTried == 29

\* largest mode byte tried as GET_CURRENT_MODE reply
MaxModeTried == 5

\* largest count byte res[8] tried below the capacity of the reply
MaxCountTried == 2

Generations == {"V2", "V2-1", "V3"}

\* swd_frequency: None (the default), 0, and values around the table rows
Frequencies ==
    {None, 0, 10000, 24999, 25000, 949999, 1000000, 4000000, 5000000}

\* jtag fields around the gates 11/12, 21/22 and 28/29
JtagTried == {j \in {11, 12, 13, 21, 22, 28, 29, 30} : j <= MaxJtagTried}

\* 16 bit version words: major 2 with every jtag tried, majors 3, 1 and 0
VerWords ==
    {2 * 4096 + j * 64 + 32 : j \in JtagTried}
        \cup {3 * 4096, 1 * 4096 + 13 * 64 + 32, 0}

\* 6 byte GET_VERSION replies: the version word big-endian, then VID and PID
VersionReplies ==
    {Reply(<<w \div 256, w % 256, 131, 4, 72, 55>>) : w \in VerWords}

\* 16 byte GET_VERSION_EX replies
VersionExReplies ==
    {Reply(<<3, 1, 7, 38, 4, 0, 0, 0, 131, 4, 78, 55, 0, 0, 0, 0>>)}

ModeReplies == {Reply(<<m, 0>>) : m \in 0..MaxModeTried}

StatusReplies == {Reply(<<128, 0>>), Reply(<<0, 0>>)}

\* advertised kHz values tried, as their 4 bytes little-endian; the last one
\* is 16777216 + 900 kHz, above every request
EntryTried == {ToBytesLE4(k) : k \in {24, 1000, 16778116}}

\* 52 byte GET_COM_FREQ replies: count at res[8], 10 entries from offset 12;
\* the entries after the second repeat the second
ComFreqReply(count, e0, e1) ==
    Reply(<<128, 0, 0, 0, 0, 0, 0, 0, count, 0, 0, 0>>
          \o e0 \o e1 \o e1 \o e1 \o e1 \o e1 \o e1 \o e1 \o e1 \o e1)

ComFreqReplies ==
    {ComFreqReply(c, e0, e1) :
        c \in (0..MaxCountTried) \cup {10, 11}, e0 \in EntryTried,
        e1 \in EntryTried}

\* ------------------------------------------------------------------------
\* State machine of Stlink.__init__
\* ------------------------------------------------------------------------
\* no memory operation called yet
\* an optional list argument: given is FALSE for None
NoExpected == [given |-> FALSE, names |-> <<>>]

\* no Stm32 object: the class constants of the base class Stm32
NoCall == [op |-> "", arg |-> <<>>, ret |-> {}, exc |-> NoErr]

NoMcu ==
    /\ _IDCODE_REG = None /\ _FLASH_SIZE_REG = None /\ _MCUS = <<>>
    /\ expected_mcus = NoExpected /\ _mcus = <<>> /\ _flash_size = None
    /\ reads = <<>> /\ called = NoCall /\ svd_loaded = <<>>

NoOp ==
    [op |-> "", address |-> 0, size |-> 0, word |-> None, before |-> 0,
     ret |-> None]

Init ==
    /\ pc = "read_version"
    /\ com_version \in Generations
    /\ swd_frequency \in Frequencies
    /\ version = EmptyVersion
    /\ log = <<>>
    /\ err = NoErr
    /\ last = NoOp
    /\ ran = ""
    /\ NoMcu

\* a construction step ended: record its xfer calls, go on or fail
Step(method, out, next) ==
    /\ ran' = method
    /\ log' = log \o out.xfers
    /\ err' = out.exc
    /\ pc' = IF out.exc = NoErr THEN next ELSE "failed"
    /\ UNCHANGED <<com_version, swd_frequency, last>>
    /\ UNCHANGED mcuvars

\* self._version = self._read_version()
ReadVersion ==
    /\ pc = "read_version"
    /\ \E r \in VersionReplies \cup {Fault},
          r_ex \in VersionExReplies \cup {Fault} :
        LET out == _read_version(com_version, r, r_ex)
        IN  /\ Step("_read_version", out, "leave_state")
            /\ version' = out.value

\* self._leave_state()
LeaveState ==
    /\ pc = "leave_state"
    /\ \E r \in ModeReplies \cup {Fault}, exit_ok \in BOOLEAN :
        /\ Step("_leave_state", _leave_state(r, exit_ok), "set_swd_freq")
        /\ UNCHANGED version

\* the frequency step without the test "if swd_frequency"
SetSwdFreq_Always ==
    /\ pc = "set_swd_freq"
    /\ \E r_get \in ComFreqReplies \cup {Fault},
          r_set \in StatusReplies \cup {Fault} :
        /\ Step("_set_swd_freq",
                _set_swd_freq(version, swd_frequency, r_get, r_set),
                "enter_debug_swd")
        /\ UNCHANGED version

\* if swd_frequency: self._set_swd_freq(swd_frequency)
SetSwdFreq ==
    /\ pc = "set_swd_freq"
    /\ Truthy(swd_frequency)
    /\ \E r_get \in ComFreqReplies \cup {Fault},
          r_set \in StatusReplies \cup {Fault} :
        /\ Step("_set_swd_freq",
                _set_swd_freq(version, swd_frequency, r_get, r_set),
                "enter_debug_swd")
        /\ UNCHANGED version

\* swd_frequency is None or 0: the step is skipped
SkipSwdFreq ==
    /\ pc = "set_swd_freq"
    /\ ~Truthy(swd_frequency)
    /\ pc' = "enter_debug_swd"
    /\ UNCHANGED <<com_version, swd_frequency, version, log, err, last, ran>>
    /\ UNCHANGED mcuvars

\* self._enter_debug_swd(), then the constructor returns the session
EnterDebugSwd ==
    /\ pc = "enter_debug_swd"
    /\ \E r \in StatusReplies \cup {Fault} :
        /\ Step("_enter_debug_swd", _enter_debug_swd(r), "ready")
        /\ UNCHANGED version

Next ==
    \/ ReadVersion
    \/ LeaveState
    \/ SetSwdFreq
    \/ SkipSwdFreq
    \/ EnterDebugSwd

Spec == Init /\ [][Next]_vars

\* ------------------------------------------------------------------------
\* Memory access operations of a constructed session, as functions of the
\* session's version, the arguments and the transport's reply
\* ------------------------------------------------------------------------

\* Stlink._STLINK_MAXIMUM_8BIT_DATA
_STLINK_MAXIMUM_8BIT_DATA == 64

\* self._com.STLINK_MAXIMUM_TRANSFER_SIZE of the transport
STLINK_MAXIMUM_TRANSFER_SIZE == 1024

\* Stlink.maximum_8bit_data
maximum_8bit_data == _STLINK_MAXIMUM_8BIT_DATA

\* Stlink.maximum_16bit_data
maximum_16bit_data == STLINK_MAXIMUM_TRANSFER_SIZE

\* Stlink.maximum_32bit_data
maximum_32bit_data == STLINK_MAXIMUM_TRANSFER_SIZE

\* int.to_bytes raises OverflowError outside 0..2^32-1
OverflowError == Exc("OverflowError", "int too big to convert")

\* comparing None with an int raises TypeError
TypeError == Exc("TypeError", "'<=' not supported")

Raise(exc) == Outcome(<<>>, exc, None)

\* an operation's single exchange: it raises TransportError or returns value
Exchange(xfer, ok, value) ==
    IF ok THEN Outcome(<<xfer>>, NoErr, value)
    ELSE Outcome(<<Faulted(xfer)>>, TransportError, None)

TooMany(what, maximum) ==
    StlinkException("Too many Bytes to " \o what \o " (maximum is "
                    \o ToString(maximum) \o " Bytes)")

NotAligned(what, width) ==
    StlinkException(what \o " is not aligned to " \o ToString(width)
                    \o " Bytes")

\* get_idcode returning the value without the test for 0
get_idcode_NoZeroCheck(r) ==
    LET cmd == <<DEBUG_COMMAND, APIV2_READ_IDCODES>>
        idcode == FromBytesLE(Slice(r.res, 4, 8))
    IN  Exchange(XferRx(cmd, 12, r.res), r.ok, idcode)

\* Stlink.get_idcode
get_idcode(r) ==
    LET cmd == <<DEBUG_COMMAND, APIV2_READ_IDCODES>>
        idcode == FromBytesLE(Slice(r.res, 4, 8))
    IN  IF ~r.ok THEN Exchange(XferRx(cmd, 12, r.res), FALSE, None)
        ELSE IF idcode = 0 THEN
            Outcome(<<XferRx(cmd, 12, r.res)>>,
                    StlinkException("No IDCODE, probably MCU is not connected"),
                    None)
        ELSE Exchange(XferRx(cmd, 12, r.res), TRUE, idcode)

\* Stlink.get_mem32
get_mem32(address, r) ==
    LET cmd == <<DEBUG_COMMAND, APIV2_READDEBUGREG>> \o ToBytesLE4(address)
    IN  IF address % 4 # 0 THEN Raise(NotAligned("Address", 4))
        ELSE IF ~FitsU32(address) THEN Raise(OverflowError)
        ELSE Exchange(XferRx(cmd, 8, r.res), r.ok,
                      FromBytesLE(Slice(r.res, 4, 8)))

\* Stlink.set_mem32
set_mem32(address, data, r) ==
    LET cmd == <<DEBUG_COMMAND, APIV2_WRITEDEBUGREG>>
               \o ToBytesLE4(address) \o ToBytesLE4(data)
    IN  IF address % 4 # 0 THEN Raise(NotAligned("Address", 4))
        ELSE IF ~FitsU32(address) \/ ~FitsU32(data) THEN Raise(OverflowError)
        ELSE Exchange(XferRx(cmd, 2, r.res), r.ok, None)

\* read_mem8 refusing a size equal to the cap
read_mem8_CapOffByOne(address, size, r) ==
    LET cmd == <<DEBUG_COMMAND, DEBUG_READMEM_8BIT>>
               \o ToBytesLE4(address) \o ToBytesLE4(size)
    IN  IF size >= maximum_8bit_data THEN
            Raise(TooMany("read", maximum_8bit_data))
        ELSE IF ~FitsU32(address) \/ ~FitsU32(size) THEN Raise(OverflowError)
        ELSE Exchange(XferRx(cmd, size, r.res), r.ok, r.res)

\* Stlink.read_mem8
read_mem8(address, size, r) ==
    LET cmd == <<DEBUG_COMMAND, DEBUG_READMEM_8BIT>>
               \o ToBytesLE4(address) \o ToBytesLE4(size)
    IN  IF size > maximum_8bit_data THEN
            Raise(TooMany("read", maximum_8bit_data))
        ELSE IF ~FitsU32(address) \/ ~FitsU32(size) THEN Raise(OverflowError)
        ELSE Exchange(XferRx(cmd, size, r.res), r.ok, r.res)

\* Stlink.write_mem8
write_mem8(address, data, ok) ==
    LET cmd == <<DEBUG_COMMAND, DEBUG_WRITEMEM_8BIT>>
               \o ToBytesLE4(address) \o ToBytesLE4(Len(data))
    IN  IF Len(data) > maximum_8bit_data THEN
            Raise(TooMany("write", maximum_8bit_data))
        ELSE IF ~FitsU32(address) THEN Raise(OverflowError)
        ELSE Exchange(XferData(cmd, data), ok, None)

\* the version guard of read_mem16 and write_mem16:
\* self._version.api <= 2 and self._version.jtag < 29
Mem16Guard(ver) ==
    IF ver.api = None THEN Raise(TypeError)
    ELSE IF ver.api <= 2 /\ ver.jtag = None THEN Raise(TypeError)
    ELSE IF ver.api <= 2 /\ ver.jtag < 29 THEN
        Raise(StlinkException("('" \o ver.str \o "', 'J29')"))
    ELSE Raise(NoErr)

\* Stlink.read_mem16
read_mem16(ver, address, size, r) ==
    LET cmd == <<DEBUG_COMMAND, APIV2_READMEM_16BIT>>
               \o ToBytesLE4(address) \o ToBytesLE4(size)
    IN  IF Mem16Guard(ver).exc # NoErr THEN Mem16Guard(ver)
        ELSE IF address % 2 # 0 THEN Raise(NotAligned("Address", 2))
        ELSE IF size % 2 # 0 THEN Raise(NotAligned("Size", 2))
        ELSE IF size > maximum_16bit_data THEN
            Raise(TooMany("read", maximum_16bit_data))
        ELSE IF ~FitsU32(address) \/ ~FitsU32(size) THEN Raise(OverflowError)
        ELSE Exchange(XferRx(cmd, size, r.res), r.ok, r.res)

\* Stlink.write_mem16
write_mem16(ver, address, data, ok) ==
    LET cmd == <<DEBUG_COMMAND, APIV2_WRITEMEM_16BIT>>
               \o ToBytesLE4(address) \o ToBytesLE4(Len(data))
    IN  IF Mem16Guard(ver).exc # NoErr THEN Mem16Guard(ver)
        ELSE IF address % 2 # 0 THEN Raise(NotAligned("Address", 2))
        ELSE IF Len(data) % 2 # 0 THEN Raise(NotAligned("Size", 2))
        ELSE IF Len(data) > maximum_16bit_data THEN
            Raise(TooMany("write", maximum_16bit_data))
        ELSE IF ~FitsU32(address) THEN Raise(OverflowError)
        ELSE Exchange(XferData(cmd, data), ok, None)

\* read_mem32 without the check of the size's alignment
read_mem32_NoSizeAlign(address, size, r) ==
    LET cmd == <<DEBUG_COMMAND, DEBUG_READMEM_32BIT>>
               \o ToBytesLE4(address) \o ToBytesLE4(size)
    IN  IF address % 4 # 0 THEN Raise(NotAligned("Address", 4))
        ELSE IF size > maximum_32bit_data THEN
            Raise(TooMany("read", maximum_32bit_data))
        ELSE IF ~FitsU32(address) \/ ~FitsU32(size) THEN Raise(OverflowError)
        ELSE Exchange(XferRx(cmd, size, r.res), r.ok, r.res)

\* Stlink.read_mem32
read_mem32(address, size, r) ==
    LET cmd == <<DEBUG_COMMAND, DEBUG_READMEM_32BIT>>
               \o ToBytesLE4(address) \o ToBytesLE4(size)
    IN  IF address % 4 # 0 THEN Raise(NotAligned("Address", 4))
        ELSE IF size % 4 # 0 THEN Raise(NotAligned("Size", 4))
        ELSE IF size > maximum_32bit_data THEN
            Raise(TooMany("read", maximum_32bit_data))
        ELSE IF ~FitsU32(address) \/ ~FitsU32(size) THEN Raise(OverflowError)
        ELSE Exchange(XferRx(cmd, size, r.res), r.ok, r.res)

\* Stlink.write_mem32
write_mem32(address, data, ok) ==
    LET cmd == <<DEBUG_COMMAND, DEBUG_WRITEMEM_32BIT>>
               \o ToBytesLE4(address) \o ToBytesLE4(Len(data))
    IN  IF address % 4 # 0 THEN Raise(NotAligned("Address", 4))
        ELSE IF Len(data) % 4 # 0 THEN Raise(NotAligned("Size", 4))
        ELSE IF Len(data) > maximum_32bit_data THEN
            Raise(TooMany("write", maximum_32bit_data))
        ELSE IF ~FitsU32(address) THEN Raise(OverflowError)
        ELSE Exchange(XferData(cmd, data), ok, None)

\* ------------------------------------------------------------------------
\* State machine of one memory operation on a constructed session
\* ------------------------------------------------------------------------

\* largest offset tried as address
MaxAddrTried == 4

\* sizes within SizeSpan of 0, of the 8 bit cap and of the transfer cap
SizeSpan == 4

\* 0..MaxAddrTried, the same offsets from 0x20000000, the two highest
\* addresses below 2^31 (0x7FFFFFFC, 0x7FFFFFFF) and a negative address
Addresses ==
    (0..MaxAddrTried) \cup {536870912 + k : k \in 0..MaxAddrTried}
        \cup {2147483644, 2147483647} \cup {0 - 4}

Sizes ==
    (0..SizeSpan)
        \cup ((_STLINK_MAXIMUM_8BIT_DATA - SizeSpan)
                ..(_STLINK_MAXIMUM_8BIT_DATA + SizeSpan))
        \cup ((STLINK_MAXIMUM_TRANSFER_SIZE - SizeSpan)
                ..(STLINK_MAXIMUM_TRANSFER_SIZE + SizeSpan))

Words == {0, 305419896}

\* n bytes read from or written to the target
Bytes(n) == [i \in 1..n |-> 90]

\* the session right after a construction without swd_frequency on a probe
\* found in MASS mode: every version the handshake can decode
Session ==
    \E dev \in Generations, r \in VersionReplies, r_ex \in VersionExReplies :
        LET rv == _read_version(dev, r, r_ex)
            ls == _leave_state(Reply(<<MODE_MASS, 0>>), TRUE)
            en == _enter_debug_swd(Reply(<<128, 0>>))
        IN  /\ pc = "ready"
            /\ com_version = dev
            /\ swd_frequency = None
            /\ version = rv.value
            /\ log = rv.xfers \o ls.xfers \o en.xfers
            /\ err = NoErr
            /\ last = NoOp
            /\ ran = "_enter_debug_swd"

\* a session, and no Stm32 object
InitMem == Session /\ NoMcu

\* the call of operation op returned or raised
Call(op, address, size, word, out) ==
    /\ last' = [op |-> op, address |-> address, size |-> size, word |-> word,
                before |-> Len(log), ret |-> out.value]
    /\ log' = log \o out.xfers
    /\ err' = out.exc
    /\ pc' = IF out.exc = NoErr THEN "returned" ELSE "raised"
    /\ UNCHANGED <<com_version, swd_frequency, version, ran>>
    /\ UNCHANGED mcuvars

\* 12 byte READ_IDCODES replies: the idcode is bytes 4..7
IdcodeReplies ==
    { <<128, 0, 0, 0>> \o id \o <<0, 0, 0, 0>> :
        id \in {<<0, 0, 0, 0>>, <<119, 20, 160, 43>>, <<1, 0, 0, 0>>,
                <<0, 0, 0, 1>>} }
        \cup { <<128, 0, 1, 2, 0, 0, 0, 0, 5, 6, 7, 8>> }

GetIdcode ==
    /\ pc = "ready"
    /\ \E res \in IdcodeReplies, ok \in BOOLEAN :
        Call("get_idcode", 0, 0, None, get_idcode([ok |-> ok, res |-> res]))

GetMem32 ==
    /\ pc = "ready"
    /\ \E address \in Addresses, ok \in BOOLEAN :
        Call("get_mem32", address, 4, None,
             get_mem32(address, [ok |-> ok, res |-> Bytes(8)]))

SetMem32 ==
    /\ pc = "ready"
    /\ \E address \in Addresses, data \in Words, ok \in BOOLEAN :
        Call("set_mem32", address, 4, data,
             set_mem32(address, data, [ok |-> ok, res |-> Bytes(2)]))

ReadMem8 ==
    /\ pc = "ready"
    /\ \E address \in Addresses, size \in Sizes, ok \in BOOLEAN :
        Call("read_mem8", address, size, None,
             read_mem8(address, size, [ok |-> ok, res |-> Bytes(size)]))

WriteMem8 ==
    /\ pc = "ready"
    /\ \E address \in Addresses, size \in Sizes, ok \in BOOLEAN :
        Call("write_mem8", address, size, None,
             write_mem8(address, Bytes(size), ok))

ReadMem16 ==
    /\ pc = "ready"
    /\ \E address \in Addresses, size \in Sizes, ok \in BOOLEAN :
        Call("read_mem16", address, size, None,
             read_mem16(version, address, size,
                        [ok |-> ok, res |-> Bytes(size)]))

WriteMem16 ==
    /\ pc = "ready"
    /\ \E address \in Addresses, size \in Sizes, ok \in BOOLEAN :
        Call("write_mem16", address, size, None,
             write_mem16(version, address, Bytes(size), ok))

ReadMem32 ==
    /\ pc = "ready"
    /\ \E address \in Addresses, size \in Sizes, ok \in BOOLEAN :
        Call("read_mem32", address, size, None,
             read_mem32(address, size, [ok |-> ok, res |-> Bytes(size)]))

WriteMem32 ==
    /\ pc = "ready"
    /\ \E address \in Addresses, size \in Sizes, ok \in BOOLEAN :
        Call("write_mem32", address, size, None,
             write_mem32(address, Bytes(size), ok))

NextMem ==
    \/ GetIdcode
    \/ GetMem32
    \/ SetMem32
    \/ ReadMem8
    \/ WriteMem8
    \/ ReadMem16
    \/ WriteMem16
    \/ ReadMem32
    \/ WriteMem32

SpecMem == InitMem /\ [][NextMem]_vars

\* ------------------------------------------------------------------------
\* STM32 identification (swd/devices/stm32.py)
\* ------------------------------------------------------------------------
\* A Python str is a sequence of one-character strings.

LowerCase ==
    <<"a", "b", "c", "d", "e", "f", "g", "h", "i", "j", "k", "l", "m", "n",
      "o", "p", "q", "r", "s", "t", "u", "v", "w", "x", "y", "z">>

UpperCase ==
    <<"A", "B", "C", "D", "E", "F", "G", "H", "I", "J", "K", "L", "M", "N",
      "O", "P", "Q", "R", "S", "T", "U", "V", "W", "X", "Y", "Z">>

\* one character of str.upper() / str.lower()
Recase(c, from, to) ==
    IF \E i \in 1..Len(from) : from[i] = c
    THEN to[CHOOSE i \in 1..Len(from) : from[i] = c]
    ELSE c

\* str.upper()
upper(s) == [i \in 1..Len(s) |-> Recase(s[i], LowerCase, UpperCase)]

\* str.lower()
lower(s) == [i \in 1..Len(s) |-> Recase(s[i], UpperCase, LowerCase)]

\* str.startswith(prefix)
startswith(s, prefix) ==
    Len(prefix) <= Len(s) /\ SubSeq(s, 1, Len(prefix)) = prefix

RECURSIVE Str(_)
\* the text of a str, for the messages of the exceptions
Str(s) == IF s = <<>> THEN "" ELSE Head(s) \o Str(Tail(s))

RECURSIVE Join(_, _)
\* sep.join(names)
Join(sep, names) ==
    IF names = <<>> THEN ""
    ELSE IF Len(names) = 1 THEN Str(names[1])
    ELSE Str(names[1]) \o sep \o Join(sep, Tail(names))

HexDigits ==
    <<"0", "1", "2", "3", "4", "5", "6", "7", "8", "9", "a", "b", "c", "d",
      "e", "f">>

\* f"{n:03x}" of a number below 0x1000
Hex3(n) ==
    HexDigits[((n \div 256) % 16) + 1] \o HexDigits[((n \div 16) % 16) + 1]
        \o HexDigits[(n % 16) + 1]

\* swd.devices.memory.KILO
KILO == 1024

\* MemoryRegions(memory).get_size(name): the size in bytes of the region of
\* that name, 0 when the map has no such region
get_size(memory, name) ==
    IF \E i \in 1..Len(memory) : memory[i].name = name
    THEN memory[CHOOSE i \in 1..Len(memory) : memory[i].name = name].size
    ELSE 0

\* Stm32._NAME
_NAME == <<"S", "T", "M", "3", "2">>

\* swd.devices.mcu.McuError
McuError(msg) == Exc("McuError", msg)

\* set.pop() of an empty set
KeyError == Exc("KeyError", "'pop from an empty set'")

\* swd.devices.stm32.UnknownMcuDetected(dev_id, flash_size=None)
UnknownMcuDetected(dev_id, flash_size) ==
    Exc("UnknownMcuDetected",
        "Unknown MCU with DEV_ID: " \o Hex3(dev_id)
        \o (IF Truthy(flash_size)
            THEN " with FLASH: " \o ToString(flash_size \div KILO) \o " KB"
            ELSE ""))

\* swd.devices.stm32.McuNotMatch(detected_mcu_names, expected_mcu_names)
McuNotMatch(detected_mcu_names, expected_mcu_names) ==
    Exc("McuNotMatch",
        "Detected MCU: " \o Join("/", detected_mcu_names)
        \o ", but expected: " \o Join("/", expected_mcu_names) \o ".")

\* a read of the target through self.swd: r is what the target answers
TargetRead(op, address, r) ==
    [reads |-> <<[op |-> op, address |-> address, ok |-> r.ok,
                 value |-> r.value]>>,
     exc |-> IF r.ok THEN NoErr ELSE TransportError,
     value |-> IF r.ok THEN r.value ELSE None]

\* self.swd.get_mem32(address)
swd_get_mem32(address, r) == TargetRead("get_mem32", address, r)

\* self.swd.get_mem16(address)
swd_get_mem16(address, r) == TargetRead("get_mem16", address, r)

\* _load_devid_from_idcode keeping the low 16 bits
_load_devid_from_idcode_Mask16(address, r) ==
    LET rd == swd_get_mem32(address, r)
    IN  [rd EXCEPT !.value = IF r.ok THEN r.value % 65536 ELSE None]

\* Stm32._load_devid_from_idcode
_load_devid_from_idcode(address, r) ==
    LET rd == swd_get_mem32(address, r)
    IN  [rd EXCEPT !.value = IF r.ok THEN r.value % 4096 ELSE None]

\* _load_flash_size reading the register as a 32 bit word
_load_flash_size_Mem32(address, r) == swd_get_mem32(address, r)

\* Stm32._load_flash_size
_load_flash_size(address, r) == swd_get_mem16(address, r)

\* Stm32._select_by_specs(specs, dev_id=dev_id)
_select_by_specs(specs, dev_id) ==
    SelectSeq(specs, LAMBDA spec : spec.dev_id = dev_id)

\* _selet_mcus_by_flash_size keeping every part with at least that FLASH
_selet_mcus_by_flash_size_AtLeast(mcus, flash_size) ==
    SelectSeq(mcus,
              LAMBDA mcu : flash_size <= get_size(mcu.memory, "FLASH"))

\* Stm32._selet_mcus_by_flash_size
_selet_mcus_by_flash_size(mcus, flash_size) ==
    SelectSeq(mcus,
              LAMBDA mcu : flash_size = get_size(mcu.memory, "FLASH"))

\* Stm32._mcu_values
_mcu_values(mcus, key) ==
    {mcus[i][key] : i \in {j \in 1..Len(mcus) : key \in DOMAIN mcus[j]}}

\* Stm32._mcu_value
_mcu_value(mcus, key) ==
    LET values == _mcu_values(mcus, key)
    IN  IF Cardinality(values) > 1 THEN
            [exc |-> McuError("Error, more values in MCUs under key"),
             value |-> None]
        ELSE IF values = {} THEN [exc |-> KeyError, value |-> None]
        ELSE [exc |-> NoErr, value |-> CHOOSE v \in values : TRUE]

\* _fix_mcu_name inserting the 'x' at index 9 (list.insert)
_fix_mcu_name_Insert(mcu_name) ==
    IF Len(mcu_name) > 9 THEN
        SubSeq(mcu_name, 1, 9) \o <<"x">> \o SubSeq(mcu_name, 10, Len(mcu_name))
    ELSE mcu_name

\* _fix_mcu_name writing the 'x' one place further
_fix_mcu_name_Index10(mcu_name) ==
    IF Len(mcu_name) > 10 THEN [mcu_name EXCEPT ![11] = "x"]
    ELSE mcu_name

\* Stm32._fix_mcu_name: index 9 of Python is the 10th character
_fix_mcu_name(mcu_name) ==
    IF Len(mcu_name) > 9 THEN [mcu_name EXCEPT ![10] = "x"]
    ELSE mcu_name

\* Stm32._fix_mcu_names; the None returned for no names is the empty set
\* here, the callers only test the result for truth
_fix_mcu_names(mcu_names) ==
    IF mcu_names = <<>> THEN {}
    ELSE {_fix_mcu_name(mcu_names[i]) :
            i \in {j \in 1..Len(mcu_names) :
                    startswith(upper(mcu_names[j]),
                               Slice(_NAME, 0, Len(mcu_names[j])))}}

\* Stm32._is_expected_mcu
_is_expected_mcu(mcu, expected) ==
    IF expected = {} THEN TRUE
    ELSE \E mcu_name \in expected : startswith(mcu.mcu_name, mcu_name)

\* Stm32._select_mcus_by_expected
_select_mcus_by_expected(mcus, expected) ==
    LET expected_mcus_fixed == _fix_mcu_names(expected)
    IN  IF expected_mcus_fixed # {} THEN
            SelectSeq(mcus,
                      LAMBDA mcu : _is_expected_mcu(mcu, expected_mcus_fixed))
        ELSE <<>>

\* Stm32._get_mcu_names
_get_mcu_names(mcus) == [i \in 1..Len(mcus) |-> mcus[i].mcu_name]

\* swd.devices.mcu.McuException
McuException(msg) == Exc("McuException", msg)

\* what a method of the object returns or raises
Returns(value) == [exc |-> NoErr, ret |-> value, svd |-> <<>>]

Raises(exc) == [exc |-> exc, ret |-> None, svd |-> <<>>]

\* memory_regions returning the first part's map whatever their number
memory_regions_First(mcus) ==
    IF Len(mcus) >= 1 THEN Returns(mcus[1].memory)
    ELSE Raises(McuException("Device has not defined memory regions"))

\* Stm32.memory_regions: the MemoryRegions object is the part's 'memory'
memory_regions(mcus) ==
    IF Len(mcus) > 1 THEN Raises(McuException("Error, more regions found"))
    ELSE IF Len(mcus) = 1 THEN Returns(mcus[1].memory)
    ELSE Raises(McuException("Device has not defined memory regions"))

\* pkg_resources.resource_filename('swd', name): the file in the package
resource_filename(package, name) == package \o "/" \o name

\* Stm32.load_svd: svd is what self.swd.load_svd is called with
load_svd(mcus) ==
    LET svd_files == _mcu_values(mcus, "svd_file")
    IN  IF Cardinality(svd_files) = 1 THEN
            [exc |-> NoErr, ret |-> None,
             svd |-> <<resource_filename("swd",
                                         CHOOSE f \in svd_files : TRUE)>>]
        ELSE IF Cardinality(svd_files) > 1 THEN
            Raises(McuException("Specify MCU to load SVD file"))
        ELSE Returns(None)

\* Stm32.name
Stm32_name(mcus) == Returns(Join(" / ", _get_mcu_names(mcus)))

\* Stm32.flash_size
Stm32_flash_size(size) == Returns(size)

\* how Stm32.__init__ ends: the reads made, the exception raised if any,
\* and the attributes assigned
Ended(rds, exc, mcus, flash_size) ==
    [reads |-> rds, exc |-> exc, mcus |-> mcus, flash_size |-> flash_size]

\* Stm32.__init__(cortexm, expected_mcus): r_id and r_fs are what the target
\* answers to the reads of the two registers
Stm32(expected, r_id, r_fs) ==
    LET id == _load_devid_from_idcode(_IDCODE_REG, r_id)
        dev_id == id.value
        by_id == _select_by_specs(_MCUS, dev_id)
        reg == IF Truthy(_FLASH_SIZE_REG)
               THEN [exc |-> NoErr, value |-> _FLASH_SIZE_REG]
               ELSE _mcu_value(by_id, "flash_size_reg")
        fs == _load_flash_size(reg.value, r_fs)
        flash_size == fs.value * KILO
        by_flash == _selet_mcus_by_flash_size(by_id, flash_size)
        selected == _select_mcus_by_expected(by_flash, expected.names)
    IN  IF id.exc # NoErr THEN Ended(id.reads, id.exc, <<>>, None)
        ELSE IF by_id = <<>> THEN
            Ended(id.reads, UnknownMcuDetected(dev_id, None), <<>>, None)
        ELSE IF reg.exc # NoErr THEN Ended(id.reads, reg.exc, <<>>, None)
        ELSE IF fs.exc # NoErr THEN
            Ended(id.reads \o fs.reads, fs.exc, <<>>, None)
        ELSE IF by_flash = <<>> THEN
            Ended(id.reads \o fs.reads,
                  UnknownMcuDetected(dev_id, flash_size), <<>>, None)
        ELSE IF expected.given /\ expected.names # <<>> THEN
            IF selected = <<>> THEN
                Ended(id.reads \o fs.reads,
                      McuNotMatch(_get_mcu_names(by_flash), expected.names),
                      <<>>, None)
            ELSE Ended(id.reads \o fs.reads, NoErr, selected, flash_size)
        ELSE Ended(id.reads \o fs.reads, NoErr, by_flash, flash_size)

\* ------------------------------------------------------------------------
\* Identification of a part: the families, catalogs and arguments tried
\* ------------------------------------------------------------------------
\* the longest expected_mcus list tried
MaxExpected == 2

STM32F103C8 == <<"S", "T", "M", "3", "2", "F", "1", "0", "3", "C", "8">>

STM32F103CB == <<"S", "T", "M", "3", "2", "F", "1", "0", "3", "C", "B">>

STM32F051R8 == <<"S", "T", "M", "3", "2", "F", "0", "5", "1", "R", "8">>

STM32F103x8 == <<"S", "T", "M", "3", "2", "F", "1", "0", "3", "x", "8">>

STM32F103xB == <<"S", "T", "M", "3", "2", "F", "1", "0", "3", "x", "B">>

STM32F101x8 == <<"S", "T", "M", "3", "2", "F", "1", "0", "1", "x", "8">>

STM32F051x8 == <<"S", "T", "M", "3", "2", "F", "0", "5", "1", "x", "8">>

STM32F100xx == <<"S", "T", "M", "3", "2", "F", "1", "0", "0", "x", "x">>

\* a memory map with a FLASH region of flash bytes, or without one for 0
Memory(flash) ==
    IF flash = 0 THEN <<[name |-> "SRAM", address |-> 536870912, size |-> 8192]>>
    ELSE <<[name |-> "FLASH", address |-> 134217728, size |-> flash],
           [name |-> "SRAM", address |-> 536870912, size |-> 8192]>>

\* entries after those of the STM32F1 and STM32F0 catalogs: two parts that
\* differ in FLASH only, a part the two registers cannot tell from the
\* first, a part with its own dev_id and flash_size_reg, and an entry
\* without flash_size_reg and without a FLASH region
CatalogPool ==
    << [mcu_name |-> STM32F103x8, dev_id |-> 1040,
        flash_size_reg |-> 536868832, svd_file |-> "svd/STM32F103xx.svd",
        memory |-> Memory(65536)],
       [mcu_name |-> STM32F103xB, dev_id |-> 1040,
        flash_size_reg |-> 536868832, svd_file |-> "svd/STM32F103xx.svd",
        memory |-> Memory(131072)],
       [mcu_name |-> STM32F101x8, dev_id |-> 1040,
        flash_size_reg |-> 536868832, svd_file |-> "svd/STM32F101xx.svd",
        memory |-> Memory(65536)],
       [mcu_name |-> STM32F051x8, dev_id |-> 1088,
        flash_size_reg |-> 536868812, svd_file |-> "svd/STM32F0x1.svd",
        memory |-> Memory(65536)],
       [mcu_name |-> STM32F100xx, dev_id |-> 1056,
        memory |-> Memory(0)] >>

RECURSIVE Pick(_, _)
\* the entries of the pool, in its order, whose index is in S
Pick(k, S) ==
    IF k > Len(CatalogPool) THEN <<>>
    ELSE (IF k \in S THEN <<CatalogPool[k]>> ELSE <<>>) \o Pick(k + 1, S)

Catalogs == {Pick(1, S) : S \in SUBSET (1..Len(CatalogPool))}

\* the names a caller may expect: a full part name, the same in lower case,
\* a part with another FLASH code, a part of another family member, a
\* family prefix, a prefix of the family's name, a part of another vendor
NamePool ==
    { STM32F103C8, lower(STM32F103C8), STM32F103CB, STM32F051R8,
      <<"S", "T", "M", "3", "2", "F", "1">>, <<"S", "T">>,
      <<"A", "T", "S", "A", "M", "D", "2", "1", "G", "1", "8">> }

NameLists == UNION {[1..n -> NamePool] : n \in 0..MaxExpected}

ExpectedTried ==
    {NoExpected} \cup {[given |-> TRUE, names |-> l] : l \in NameLists}

\* DBGMCU_IDCODE values: 0x20036410, 0x20006440, 0x10016420, 0x20036411
IdcodeValues == {537093136, 536896576, 268526624, 537093137}

\* F_SIZE values, in KB
FlashSizeValues == {0, 32, 64, 128, 65535}

TargetFault == [ok |-> FALSE, value |-> None]

TargetAnswers(values) ==
    {[ok |-> TRUE, value |-> v] : v \in values} \cup {TargetFault}

\* a session, and a family class: its registers (0x40015800, and 0x1FFFF7E0
\* or none) and its catalog
InitMcu ==
    /\ Session
    /\ com_version = "V3" /\ version.stlink = 3
    /\ _IDCODE_REG = 1073829888
    /\ _FLASH_SIZE_REG \in {None, 536868832}
    /\ _MCUS \in Catalogs
    /\ expected_mcus = NoExpected /\ _mcus = <<>> /\ _flash_size = None
    /\ reads = <<>> /\ called = NoCall /\ svd_loaded = <<>>

\* mcu = Stm32(cortexm, expected_mcus)
NewStm32 ==
    /\ pc = "ready"
    /\ \E expected \in ExpectedTried, r_id \in TargetAnswers(IdcodeValues),
          r_fs \in TargetAnswers(FlashSizeValues) :
        LET out == Stm32(expected, r_id, r_fs)
        IN  /\ expected_mcus' = expected
            /\ reads' = reads \o out.reads
            /\ err' = out.exc
            /\ _mcus' = out.mcus
            /\ _flash_size' = out.flash_size
            /\ pc' = IF out.exc = NoErr THEN "identified" ELSE "not_identified"
    /\ UNCHANGED <<com_version, swd_frequency, version, log, last, ran>>
    /\ UNCHANGED <<_IDCODE_REG, _FLASH_SIZE_REG, _MCUS, called, svd_loaded>>

NextMcu == NewStm32

SpecMcu == InitMcu /\ [][NextMcu]_vars

\* ------------------------------------------------------------------------
\* The Stm32 object after identification: name, flash_size, memory_regions
\* and load_svd
\* ------------------------------------------------------------------------
\* the most files load_svd is let to load
MaxLoads == 2

STM32F102x8 == <<"S", "T", "M", "3", "2", "F", "1", "0", "2", "x", "8">>

\* a part the two registers cannot tell from STM32F103x8 and which shares
\* its svd_file
SiblingPart ==
    [mcu_name |-> STM32F102x8, dev_id |-> 1040,
     flash_size_reg |-> 536868832, svd_file |-> "svd/STM32F103xx.svd",
     memory |-> Memory(65536)]

\* a part of the same dev_id whose flash_size_reg is another address
ConflictingPart == [SiblingPart EXCEPT !.flash_size_reg = 536868812]

\* the pool with the sibling part; two parts with different svd_file; two
\* parts with the same svd_file; two parts the flash size tells apart; a
\* part without svd_file and without flash_size_reg; two parts that
\* disagree on flash_size_reg
ObjCatalogs ==
    { CatalogPool \o <<SiblingPart>>, Pick(1, {1, 3}),
      Pick(1, {1}) \o <<SiblingPart>>, Pick(1, {1, 2}), Pick(1, {5}),
      Pick(1, {1}) \o <<ConflictingPart>> }

InitObj ==
    /\ Session
    /\ com_version = "V3" /\ version.stlink = 3
    /\ _IDCODE_REG = 1073829888
    /\ _FLASH_SIZE_REG \in {None, 536868832}
    /\ _MCUS \in ObjCatalogs
    /\ expected_mcus = NoExpected /\ _mcus = <<>> /\ _flash_size = None
    /\ reads = <<>> /\ called = NoCall /\ svd_loaded = <<>>

\* a method of the object returned or raised
MethodCall(op, out) ==
    /\ called' = [op |-> op, arg |-> <<>>, ret |-> out.ret, exc |-> out.exc]
    /\ svd_loaded' = svd_loaded \o out.svd
    /\ UNCHANGED <<stlinkvars, _IDCODE_REG, _FLASH_SIZE_REG, _MCUS,
                   expected_mcus, _mcus, _flash_size, reads>>

\* mcu.name
Name ==
    /\ pc = "identified"
    /\ MethodCall("name", Stm32_name(_mcus))

\* mcu.flash_size
FlashSize ==
    /\ pc = "identified"
    /\ MethodCall("flash_size", Stm32_flash_size(_flash_size))

\* mcu.memory_regions
MemoryRegions ==
    /\ pc = "identified"
    /\ MethodCall("memory_regions", memory_regions(_mcus))

\* mcu.load_svd()
LoadSvd ==
    /\ pc = "identified"
    /\ Len(svd_loaded) < MaxLoads
    /\ MethodCall("load_svd", load_svd(_mcus))

NextObj ==
    \/ NewStm32
    \/ Name
    \/ FlashSize
    \/ MemoryRegions
    \/ LoadSvd

SpecObj == InitObj /\ [][NextObj]_vars

\* ------------------------------------------------------------------------
\* Canonicalization of names: Stm32._fix_mcu_names applied, and applied
\* again to its result
\* ------------------------------------------------------------------------
\* the longest name tried
MaxNameLen == 12

STM32F103RCT6 ==
    <<"S", "T", "M", "3", "2", "F", "1", "0", "3", "R", "C", "T", "6">>

Stm32f407vgt6 ==
    <<"S", "t", "m", "3", "2", "f", "4", "0", "7", "v", "G", "t", "6">>

ATSAMD21G18 == <<"A", "T", "S", "A", "M", "D", "2", "1", "G", "1", "8">>

BaseNames ==
    {STM32F103C8, STM32F103x8, STM32F103RCT6, Stm32f407vgt6, ATSAMD21G18}

\* every prefix of at most MaxNameLen characters of a base name, as
\* written, in upper case and in lower case
NamesTried ==
    UNION {{Slice(b, 0, n), Slice(upper(b), 0, n), Slice(lower(b), 0, n)} :
            b \in BaseNames, n \in 0..MaxNameLen}

NameListsTried == {<<n>> : n \in NamesTried} \cup NameLists

\* the lists whose elements are the names of the set S, each once
ListsOf(S) ==
    {l \in [1..Cardinality(S) -> S] : {l[i] : i \in 1..Len(l)} = S}

InitCanon ==
    /\ Session
    /\ com_version = "V3" /\ version.stlink = 3
    /\ NoMcu

\* Stm32._fix_mcu_names(mcu_names)
FixMcuNames ==
    /\ pc = "ready"
    /\ \E mcu_names \in NameListsTried :
        called' = [op |-> "_fix_mcu_names", arg |-> mcu_names,
                   ret |-> _fix_mcu_names(mcu_names), exc |-> NoErr]
    /\ pc' = "fixed"
    /\ UNCHANGED <<com_version, swd_frequency, version, log, err, last, ran>>
    /\ UNCHANGED <<_IDCODE_REG, _FLASH_SIZE_REG, _MCUS, expected_mcus, _mcus,
                   _flash_size, reads, svd_loaded>>

\* Stm32._fix_mcu_names(fixed_names) on the names returned before
FixMcuNamesAgain ==
    /\ pc = "fixed"
    /\ \E mcu_names \in ListsOf(called.ret) :
        called' = [op |-> "_fix_mcu_names", arg |-> mcu_names,
                   ret |-> _fix_mcu_names(mcu_names), exc |-> NoErr]
    /\ pc' = "fixed_again"
    /\ UNCHANGED <<com_version, swd_frequency, version, log, err, last, ran>>
    /\ UNCHANGED <<_IDCODE_REG, _FLASH_SIZE_REG, _MCUS, expected_mcus, _mcus,
                   _flash_size, reads, svd_loaded>>

NextCanon ==
    \/ FixMcuNames
    \/ FixMcuNamesAgain

SpecCanon == InitCanon /\ [][NextCanon]_vars

\* ------------------------------------------------------------------------
\* Properties
\* ------------------------------------------------------------------------

\* the memory operation called has ended
OpEnded == pc \in {"returned", "raised"}

\* the number of xfer calls the operation called has made
OpXfers == Len(log) - last.before

\* the firmware able to do 16 bit accesses: api >= 2 and (V3 or jtag >= 29)
Mem16Firmware(ver) ==
    ver.api >= 2 /\ (ver.stlink = 3 \/ ver.jtag >= 29)

\* a precondition of operation op fails for (address, size) on version ver
PreconditionFails(op, address, size, ver) ==
    \/ op \in {"get_mem32", "set_mem32"} /\ address % 4 # 0
    \/ op \in {"read_mem8", "write_mem8"} /\ size > 64
    \/ op \in {"read_mem16", "write_mem16"}
        /\ \/ ~Mem16Firmware(ver)
           \/ address % 2 # 0
           \/ size % 2 # 0
           \/ size > STLINK_MAXIMUM_TRANSFER_SIZE
    \/ op \in {"read_mem32", "write_mem32"}
        /\ \/ address % 4 # 0
           \/ size % 4 # 0
           \/ size > STLINK_MAXIMUM_TRANSFER_SIZE

\* C1: a memory operation one of whose preconditions fails (alignment of the
\* address or of the size, size cap, firmware gate) raises and has called
\* the transport's xfer zero times.
C1_NoWireOnViolation ==
    (OpEnded /\ PreconditionFails(last.op, last.address, last.size, version))
        => (pc = "raised" /\ err # NoErr /\ OpXfers = 0)

\* read_mem32 at address 2 has raised without an exchange
C1_Witness ==
    /\ pc = "raised"
    /\ last.op = "read_mem32"
    /\ last.address = 2
    /\ err = NotAligned("Address", 4)
    /\ OpXfers = 0

\* the place of a request in the order of construction: GET_VERSION 1,
\* GET_VERSION_EX 2, GET_CURRENT_MODE 3, a mode exit 4, GET_COM_FREQ 5,
\* SWD_SET_FREQ or SET_COM_FREQ 6, enter SWD 7, anything else 0
Rank(tx) ==
    IF tx = <<241, 128>> THEN 1
    ELSE IF tx = <<251, 128>> THEN 2
    ELSE IF tx = <<245>> THEN 3
    ELSE IF tx \in {<<243, 7>>, <<242, 33>>, <<244, 1>>} THEN 4
    ELSE IF tx = <<242, 98, 0>> THEN 5
    ELSE IF Len(tx) = 3 /\ tx[1] = 242 /\ tx[2] = 67 THEN 6
    ELSE IF Len(tx) = 8 /\ SubSeq(tx, 1, 4) = <<242, 97, 0, 0>> THEN 6
    ELSE IF tx = <<242, 48, 163>> THEN 7
    ELSE 0

LogIdx == 1..Len(log)

RankAt(i) == Rank(log[i].tx)

\* C2: in every successful construction the exchanges are, in this order,
\* GET_VERSION, GET_VERSION_EX exactly when major is 3, GET_CURRENT_MODE, at
\* most one mode exit, the frequency commands only when a frequency was
\* requested, and the enter-SWD command, sent once and last.
C2_ConstructionOrder ==
    pc = "ready" =>
        /\ Len(log) >= 3
        /\ \A i \in LogIdx : RankAt(i) # 0
        /\ \A i \in LogIdx : i < Len(log) => RankAt(i) < RankAt(i + 1)
        /\ RankAt(1) = 1
        /\ RankAt(Len(log)) = 7
        /\ \E i \in LogIdx : RankAt(i) = 3
        /\ (\E i \in LogIdx : RankAt(i) = 2) <=> (version.stlink = 3)
        /\ (\E i \in LogIdx : RankAt(i) \in {5, 6}) => Truthy(swd_frequency)

\* a V3 session constructed with a frequency, after a mode exit: all seven
\* kinds of exchange happened
C2_Witness ==
    /\ pc = "ready"
    /\ version.stlink = 3
    /\ Len(log) = 7
    /\ swd_frequency = 1000000

\* the construction failed at exchange i
FailedAt(i) == i = Len(log) /\ pc = "failed" /\ err # NoErr

\* what C3 says of a state
C3_State ==
    /\ (err # NoErr) <=> (pc = "failed")
    /\ pc = "failed" => \A i \in LogIdx : RankAt(i) = 7 => ~log[i].ok
    /\ \A i \in LogIdx : ~log[i].ok => (FailedAt(i) /\ err = TransportError)
    /\ \A i \in LogIdx :
        (log[i].ok /\ RankAt(i) = 6 /\ log[i].res[1] # 128) => FailedAt(i)
    /\ \A i \in LogIdx :
        (log[i].ok /\ RankAt(i) = 5 /\ log[i].res[9] = 0) => FailedAt(i)
    /\ (ran = "_set_swd_freq" /\ version.stlink = 2
            /\ (version.jtag < 22 \/ swd_frequency < 25000))
        => (pc = "failed" /\ err # NoErr /\ RankAt(Len(log)) \in {3, 4})

\* C3: when a step of construction fails (transport error in any exchange,
\* outdated firmware, frequency too low, frequency status not 0x80) the
\* error reaches the caller, no exchange follows the failing step (the
\* enter-SWD command is never sent, unless it is the exchange that failed)
\* and no session is returned.
C3_FailureStopsConstruction ==
    /\ []C3_State
    /\ [][pc = "failed" => (pc' = "failed" /\ log' = log /\ err' = err)]_vars

\* a V2 construction failed on the status of SWD_SET_FREQ
C3_Witness ==
    /\ pc = "failed"
    /\ err = StlinkException("Error switching SWD frequency")
    /\ RankAt(Len(log)) = 6
    /\ log[Len(log)].res[1] = 0
    /\ version.stlink = 2

\* the handshake has completed: _read_version returned a version
HandshakeDone == version.stlink # None

\* the version word of the GET_VERSION reply, big-endian
VerWord == log[1].res[1] * 256 + log[1].res[2]

\* C4: the handshake takes ver big-endian from the first two bytes of the
\* reply and major = (ver >> 12) & 0xF; for major 2, jtag = (ver >> 6) & 0x3F,
\* api = 1 if jtag <= 11 else 2, swim = ver & 0x3F only on V2, mass = ver &
\* 0x3F only on V2-1; for major 3 it sends GET_VERSION_EX and takes api = 3
\* and swim, jtag, mass, bridge from bytes 1..4.  ver = 0x2360 on V2-1 gives
\* major 2, api 2, jtag 13, mass 32.
C4_VersionDecoding ==
    HandshakeDone =>
        LET ver == VerWord
            major == (ver \div 4096) % 16
        IN  /\ log[1].tx = <<241, 128>>
            /\ version.stlink = major
            /\ major = 2 =>
                /\ version.jtag = (ver \div 64) % 64
                /\ version.api = (IF version.jtag <= 11 THEN 1 ELSE 2)
                /\ version.swim =
                    (IF com_version = "V2" THEN ver % 64 ELSE None)
                /\ version.mass =
                    (IF com_version = "V2-1" THEN ver % 64 ELSE None)
                /\ version.bridge = None
            /\ major = 3 =>
                /\ log[2].tx = <<251, 128>>
                /\ version.api = 3
                /\ version.swim = log[2].res[2]
                /\ version.jtag = log[2].res[3]
                /\ version.mass = log[2].res[4]
                /\ version.bridge = log[2].res[5]
            /\ (ver = 9056 /\ com_version = "V2-1") =>
                /\ major = 2
                /\ version.api = 2
                /\ version.jtag = 13
                /\ version.mass = 32

\* the handshake of scenario 1: reply 0x23 0x60 on a V2-1 transport
C4_Witness ==
    /\ HandshakeDone
    /\ SubSeq(log[1].res, 1, 2) = <<35, 96>>
    /\ com_version = "V2-1"
    /\ version.str = "ST-Link/V2-1 V2J13M32"

\* C5: every version a completed handshake produces has api in {1, 2, 3}.
C5_ApiLevelDefined ==
    HandshakeDone => version.api \in {1, 2, 3}

\* the exit command of a mode byte, <<>> when the mode has none
ExitOf(mode) ==
    IF mode = 0 THEN <<243, 7>>
    ELSE IF mode = 2 THEN <<242, 33>>
    ELSE IF mode = 3 THEN <<244, 1>>
    ELSE <<>>

\* C6: after GET_CURRENT_MODE the next exchange is [0xF3,0x07] for DFU,
\* [0xF2,0x21] for DEBUG, [0xF4,0x01] for SWIM; for every other mode byte no
\* exit command is sent; at most one exit command is sent per construction.
C6_ModeExit ==
    /\ Cardinality({i \in LogIdx : RankAt(i) = 4}) <= 1
    /\ \A i \in LogIdx :
        (RankAt(i) = 3 /\ log[i].ok) =>
            IF ExitOf(log[i].res[1]) = <<>>
            THEN \A j \in LogIdx : RankAt(j) # 4
            ELSE /\ Len(log) > i
                 /\ log[i + 1].tx = ExitOf(log[i].res[1])
                 /\ log[i + 1].rx_length = None
                 /\ ~log[i + 1].has_data

\* scenario 2: the probe was in DEBUG mode and [0xF2,0x21] followed
C6_Witness ==
    \E i \in LogIdx :
        /\ RankAt(i) = 3
        /\ log[i].ok
        /\ log[i].res[1] = 2
        /\ Len(log) > i
        /\ log[i + 1].tx = <<242, 33>>

\* the fixed V2 table of the data model: (hz, opcode)
FrequencyTable ==
    { <<4000000, 0>>, <<1800000, 1>>, <<1200000, 2>>, <<950000, 3>>,
      <<480000, 7>>, <<240000, 15>>, <<125000, 31>>, <<100000, 40>>,
      <<50000, 79>>, <<25000, 158>> }

\* the row with the highest frequency that does not exceed hz
BestRow(hz) ==
    CHOOSE row \in FrequencyTable :
        /\ row[1] <= hz
        /\ \A other \in FrequencyTable : other[1] <= hz => other[1] <= row[1]

\* the frequency step of a construction with a frequency requested has run
FreqStepRan ==
    Truthy(swd_frequency) /\ ran \in {"_set_swd_freq", "_enter_debug_swd"}

SetFreqIdx == {i \in LogIdx : RankAt(i) = 6}

TooLow(e) ==
    /\ e.cls = "StlinkException"
    /\ e.msg \in {"Selected SWD frequency is too low",
                  "Requested SWD frequency is too low"}

\* C7: on a major-2 probe with jtag >= 22 and a requested frequency of at
\* least 25 kHz, the single SWD_SET_FREQ request is [0xF2,0x43,opcode] with
\* the opcode of the highest table frequency not above the requested one
\* (1 MHz requested selects (950000, 3)).
C7_V2FrequencySelection ==
    (FreqStepRan /\ version.stlink = 2 /\ version.jtag >= 22
            /\ swd_frequency >= 25000) =>
        /\ Cardinality(SetFreqIdx) = 1
        /\ \A i \in SetFreqIdx :
            /\ log[i].tx = <<242, 67, BestRow(swd_frequency)[2]>>
            /\ log[i].rx_length = 2
            /\ BestRow(swd_frequency)[1] <= swd_frequency
            /\ swd_frequency = 1000000 => log[i].tx = <<242, 67, 3>>

\* scenario 3: 1 MHz requested, [0xF2,0x43,3] acknowledged with 0x80
C7_Witness ==
    /\ pc = "ready"
    /\ version.stlink = 2
    /\ swd_frequency = 1000000
    /\ \E i \in SetFreqIdx :
        log[i].tx = <<242, 67, 3>> /\ log[i].ok /\ log[i].res[1] = 128

\* the advertised entries of a GET_COM_FREQ reply: 0..count-1, as far as
\* the 52 bytes hold them
Advertised(res) == {j \in 0..(res[9] - 1) : 12 + 4 * j + 4 <= Len(res)}

\* entry j of a GET_COM_FREQ reply: 32 bits little-endian at offset 12 + 4j
Entry32(res, j) == FromBytesLE(SubSeq(res, 13 + 4 * j, 16 + 4 * j))

Qualifying(res, hz) ==
    {j \in Advertised(res) : Entry32(res, j) <= hz \div 1000}

\* C8: when the requested frequency is below every supported step the
\* construction fails with FrequencyTooLow and no set-frequency command is
\* sent: on V2 (firmware gate passed) below every row of the table, on V3
\* when no advertised entry qualifies, count 0 included.
C8_FrequencyTooLow ==
    /\ (FreqStepRan /\ version.stlink = 2 /\ version.jtag >= 22
            /\ swd_frequency < 25000)
        => (pc = "failed" /\ TooLow(err) /\ SetFreqIdx = {})
    /\ \A i \in LogIdx :
        (RankAt(i) = 5 /\ log[i].ok
                /\ Qualifying(log[i].res, swd_frequency) = {})
            => (FailedAt(i) /\ TooLow(err))

\* C9: on a major-2 probe with a frequency requested, construction fails
\* with OutdatedFirmware and sends no SWD_SET_FREQ exactly when jtag < 22.
C9_V2FirmwareGate ==
    /\ (FreqStepRan /\ version.stlink = 2) =>
        ((pc = "failed" /\ err.cls = "OutdatedStlinkFirmware"
                /\ SetFreqIdx = {})
            <=> (version.jtag < 22))
    /\ (FreqStepRan /\ version.stlink = 2 /\ version.jtag = 21) =>
        err = OutdatedStlinkFirmware(version.str, "J22")
    /\ (FreqStepRan /\ version.stlink = 2 /\ version.jtag = 22) =>
        err.cls # "OutdatedStlinkFirmware"

\* jtag 21 with a frequency requested: OutdatedFirmware
C9_Witness ==
    /\ FreqStepRan
    /\ version.stlink = 2
    /\ version.jtag = 21
    /\ pc = "failed"
    /\ err.cls = "OutdatedStlinkFirmware"

\* jtag 22 with a frequency requested: the gate passed, SWD_SET_FREQ sent
C9_WitnessPass ==
    /\ FreqStepRan
    /\ version.stlink = 2
    /\ version.jtag = 22
    /\ SetFreqIdx # {}

Least(S) == CHOOSE j \in S : \A k \in S : j <= k

\* C10: on a V3 probe the kHz value sent after [0xF2,0x61,0x00,0x00] is the
\* full 32 bit little-endian value of the first advertised entry, at offset
\* 12 + 4i, that is <= requested_hz / 1000; it is always an advertised entry.
C10_V3SendsFirstQualifyingEntry ==
    \A i \in LogIdx :
        (RankAt(i) = 6 /\ Len(log[i].tx) = 8) =>
            LET res == log[i - 1].res
                q == Qualifying(res, swd_frequency)
            IN  /\ RankAt(i - 1) = 5
                /\ q # {}
                /\ SubSeq(log[i].tx, 5, 8)
                    = SubSeq(res, 13 + 4 * Least(q), 16 + 4 * Least(q))

SwitchFailed == StlinkException("Error switching SWD frequency")

\* C11: after a set-frequency command of either generation (SWD_SET_FREQ of
\* V2, SET_COM_FREQ of V3) is answered, a first response byte other than
\* 0x80 ends construction with FrequencySetFailed
\* (StlinkException "Error switching SWD frequency"), and a first byte of
\* 0x80 lets construction go on to the enter-SWD step.
C11_FrequencyStatus ==
    \A i \in SetFreqIdx :
        log[i].ok =>
            /\ log[i].rx_length = 2
            /\ log[i].res[1] # 128 => (FailedAt(i) /\ err = SwitchFailed)
            /\ log[i].res[1] = 128 =>
                /\ err # SwitchFailed
                /\ ~FailedAt(i)
                /\ ran = "_set_swd_freq" =>
                        (pc = "enter_debug_swd" /\ err = NoErr)

\* a V3 construction failed on the status of SET_COM_FREQ
C11_Witness ==
    /\ version.stlink = 3 /\ pc = "failed" /\ err = SwitchFailed
    /\ \E i \in SetFreqIdx :
        Len(log[i].tx) = 8 /\ log[i].ok /\ log[i].res[1] # 128

NoIdcode == StlinkException("No IDCODE, probably MCU is not connected")

\* the 32 bit little-endian value of bytes 4..8 (0-based, end excluded)
IdcodeOf(res) ==
    res[5] + 256 * res[6] + 65536 * res[7] + 16777216 * res[8]

\* C12: get_idcode never returns 0: on a 12 byte READ_IDCODES response it
\* returns the little-endian 32 bit value of bytes 4..8 when that value is
\* not zero and fails with NoIdcode (StlinkException "No IDCODE, probably
\* MCU is not connected") when it is zero.
C12_IdcodeNeverZero ==
    (OpEnded /\ last.op = "get_idcode") =>
        /\ OpXfers = 1
        /\ log[Len(log)].tx = <<242, 49>>
        /\ log[Len(log)].rx_length = 12
        /\ pc = "returned" => last.ret # 0
        /\ log[Len(log)].ok =>
            LET idcode == IdcodeOf(log[Len(log)].res)
            IN  IF idcode = 0 THEN pc = "raised" /\ err = NoIdcode
                ELSE pc = "returned" /\ last.ret = idcode

\* READ_IDCODES answered with zero in bytes 4..8: NoIdcode
C12_Witness ==
    /\ pc = "raised" /\ last.op = "get_idcode" /\ err = NoIdcode
    /\ OpXfers = 1 /\ log[Len(log)].ok
    /\ IdcodeOf(log[Len(log)].res) = 0

\* the operation's verb in its messages
Verb(op) ==
    IF op \in {"read_mem8", "read_mem16", "read_mem32"} THEN "read"
    ELSE "write"

\* the width in bytes of the accesses of a block operation
Width(op) ==
    IF op \in {"read_mem8", "write_mem8"} THEN 1
    ELSE IF op \in {"read_mem16", "write_mem16"} THEN 2
    ELSE 4

BlockOps ==
    {"read_mem8", "write_mem8", "read_mem16", "write_mem16", "read_mem32",
     "write_mem32"}

\* the arguments are valid but for the byte count's size: a 32 bit address,
\* address and count aligned to the width, firmware able to do the access
OtherwiseValid(op, address, size, ver) ==
    /\ FitsU32(address)
    /\ address % Width(op) = 0 /\ size % Width(op) = 0
    /\ Width(op) = 2 => Mem16Firmware(ver)

\* the cap of the operation: 64, or the transport's maximum_transfer_size
Cap(op) == IF Width(op) = 1 THEN 64 ELSE STLINK_MAXIMUM_TRANSFER_SIZE

\* the operation called went through: one exchange, and nothing raised but
\* a fault of the transport in that exchange
WentThrough ==
    /\ OpXfers = 1
    /\ IF log[Len(log)].ok THEN pc = "returned" /\ err = NoErr
       ELSE pc = "raised" /\ err = TransportError

\* C13: read_mem8 and write_mem8 succeed for every byte count n <= 64 and
\* fail with TransferTooLarge (StlinkException "Too many Bytes to ...") for
\* every n >= 65; the 16 and 32 bit operations with otherwise valid
\* arguments succeed for every n <= maximum_transfer_size and fail with
\* TransferTooLarge for every larger n. To succeed is to send the one
\* request, which only a fault of the transport can fail.
C13_TransferCaps ==
    (OpEnded /\ last.op \in BlockOps
            /\ OtherwiseValid(last.op, last.address, last.size, version)) =>
        IF last.size <= Cap(last.op) THEN WentThrough
        ELSE /\ pc = "raised" /\ OpXfers = 0
             /\ err = TooMany(Verb(last.op), Cap(last.op))

\* read_mem8 of 64 bytes has returned them
C13_Witness ==
    /\ pc = "returned" /\ last.op = "read_mem8" /\ last.size = 64
    /\ OpXfers = 1 /\ Len(last.ret) = 64

\* write_mem8 of 65 bytes has failed with TransferTooLarge
C13_WitnessTooLarge ==
    /\ pc = "raised" /\ last.op = "write_mem8" /\ last.size = 65
    /\ err = TooMany("write", 64)

\* C14: read_mem16 and write_mem16 are permitted exactly when api >= 2 and
\* (the probe is V3 or jtag >= 29); on every other session version they
\* fail, before any exchange, with OutdatedFirmware(current version string,
\* minimum "J29"), an error kind other than that of the alignment and size
\* errors. Stated of the sessions whose version has an api level.
C14_Mem16Gate ==
    (OpEnded /\ last.op \in {"read_mem16", "write_mem16"}
            /\ version.api # None) =>
        IF Mem16Firmware(version) THEN err.cls # "OutdatedStlinkFirmware"
        ELSE /\ pc = "raised" /\ OpXfers = 0
             /\ err = OutdatedStlinkFirmware(version.str, "J29")

\* the two command bytes of each memory operation
CommandOf(op) ==
    CASE op = "get_mem32" -> <<242, 54>>
      [] op = "set_mem32" -> <<242, 53>>
      [] op = "read_mem8" -> <<242, 12>>
      [] op = "write_mem8" -> <<242, 13>>
      [] op = "read_mem16" -> <<242, 71>>
      [] op = "write_mem16" -> <<242, 72>>
      [] op = "read_mem32" -> <<242, 7>>
      [] op = "write_mem32" -> <<242, 8>>

\* the little-endian value of the 4 bytes of tx from index k (1-based)
Dec4(tx, k) ==
    tx[k] + 256 * tx[k + 1] + 65536 * tx[k + 2] + 16777216 * tx[k + 3]

\* what C15 says of the request tx of operation op
C15_Request(op, tx) ==
    /\ \A k \in 1..Len(tx) : tx[k] \in 0..255
    /\ SubSeq(tx, 1, 2) = CommandOf(op)
    /\ Dec4(tx, 3) = last.address
    /\ op \in BlockOps => (Len(tx) = 10 /\ Dec4(tx, 7) = last.size)
    /\ op = "get_mem32" => Len(tx) = 6
    /\ op = "set_mem32" => (Len(tx) = 10 /\ Dec4(tx, 7) = last.word)

\* C15: every request of read_mem8/16/32 and write_mem8/16/32 is exactly 10
\* bytes: the 2 command bytes, the address as 4 little-endian bytes, the
\* length (n, or len(data) for writes) as 4 little-endian bytes; get_mem32
\* and set_mem32 encode the address (and set_mem32 the value) as exactly 4
\* little-endian bytes. Decoding the fields little-endian yields the
\* caller's address and length.
C15_RequestEncoding ==
    (OpEnded /\ last.op \in BlockOps \cup {"get_mem32", "set_mem32"}) =>
        /\ OpXfers \in {0, 1}
        /\ OpXfers = 1 => C15_Request(last.op, log[Len(log)].tx)
        /\ (OpXfers = 1 /\ last.op \in {"write_mem8", "write_mem16",
                                         "write_mem32"}) =>
                Len(log[Len(log)].data) = last.size

\* read_mem8 of 64 bytes at 0x7FFFFFFF
C15_Witness ==
    /\ OpEnded /\ last.op = "read_mem8" /\ OpXfers = 1
    /\ log[Len(log)].tx = <<242, 12, 255, 255, 255, 127, 64, 0, 0, 0>>

\* set_mem32 of 0x12345678 at 0x20000004
C15_WitnessWord ==
    /\ OpEnded /\ last.op = "set_mem32" /\ OpXfers = 1
    /\ log[Len(log)].tx = <<242, 53, 4, 0, 0, 32, 120, 86, 52, 18>>

\* the call of Stm32(cortexm, expected_mcus) has ended
McuEnded == pc \in {"identified", "not_identified"}

\* the name list the caller supplied
Expecting == expected_mcus.given /\ expected_mcus.names # <<>>

\* the low 12 bits of the value read first
DevIdRead == reads[1].value % 4096

\* the catalog entries of a dev_id
OfDevId(dev_id) == {i \in 1..Len(_MCUS) : _MCUS[i].dev_id = dev_id}

\* the entries kept, as a set
Kept == {_mcus[k] : k \in 1..Len(_mcus)}

\* C16: identification computes dev_id as the low 12 bits of the value
\* read with get_mem32 at IDCODE_REG and keeps exactly the catalog entries
\* of that dev_id (those the later filters leave); when the catalog has
\* none it fails with UnknownMcuDetected(dev_id) and has not read the
\* flash-size register.
C16_DevIdFilter ==
    McuEnded =>
        /\ Len(reads) >= 1
        /\ reads[1].op = "get_mem32" /\ reads[1].address = _IDCODE_REG
        /\ reads[1].ok =>
            /\ OfDevId(DevIdRead) = {} =>
                /\ pc = "not_identified" /\ Len(reads) = 1
                /\ err = Exc("UnknownMcuDetected",
                             "Unknown MCU with DEV_ID: " \o Hex3(DevIdRead))
            /\ OfDevId(DevIdRead) # {} =>
                ~(err.cls = "UnknownMcuDetected" /\ Len(reads) = 1)
            /\ pc = "identified" =>
                /\ Kept \subseteq {_MCUS[i] : i \in OfDevId(DevIdRead)}
                /\ ~Expecting =>
                    \A i \in OfDevId(DevIdRead) :
                        get_size(_MCUS[i].memory, "FLASH") = _flash_size
                            => _MCUS[i] \in Kept

\* 0x20036411 read from a target whose dev_id 0x411 is not in the catalog
C16_Witness ==
    /\ pc = "not_identified" /\ _MCUS # <<>> /\ Len(reads) = 1
    /\ reads[1].ok /\ reads[1].value = 537093137
    /\ err.msg = "Unknown MCU with DEV_ID: 411"

\* 0x20036410 read: the parts of dev_id 0x410 with 64 KB of FLASH are kept
C16_WitnessKept ==
    /\ pc = "identified" /\ Len(_MCUS) = 5 /\ ~Expecting
    /\ reads[1].value = 537093136 /\ Len(_mcus) = 2

\* both registers were read and answered
BothRead == Len(reads) = 2 /\ reads[1].ok /\ reads[2].ok

\* the detected flash size in bytes: the raw 16 bit value times 1024
FlashBytesRead == reads[2].value * 1024

\* the catalog entries of the dev_id read whose FLASH region has the size
\* read
OfFlashSize ==
    {i \in OfDevId(DevIdRead) :
        get_size(_MCUS[i].memory, "FLASH") = FlashBytesRead}

\* C17: after every successful identification the candidate set is not
\* empty, every candidate has the detected dev_id, and the detected flash
\* size in bytes (the raw 16 bit register value times 1024) is
\* get_size("FLASH") of every candidate's memory map; when no candidate of
\* the dev_id has that FLASH size, identification fails with
\* UnknownMcuDetected(dev_id, flash_size_bytes), whose text names the size
\* in KB when it is not 0.
C17_FlashSizeFilter ==
    McuEnded =>
        /\ pc = "identified" =>
            /\ BothRead /\ reads[2].op = "get_mem16"
            /\ _mcus # <<>>
            /\ _flash_size = FlashBytesRead
            /\ \A k \in 1..Len(_mcus) :
                /\ _mcus[k].dev_id = DevIdRead
                /\ get_size(_mcus[k].memory, "FLASH") = _flash_size
        /\ (BothRead /\ OfFlashSize = {}) =>
            /\ pc = "not_identified"
            /\ err.cls = "UnknownMcuDetected"
            /\ err.msg =
                "Unknown MCU with DEV_ID: " \o Hex3(DevIdRead)
                \o (IF reads[2].value = 0 THEN ""
                    ELSE " with FLASH: " \o ToString(reads[2].value)
                         \o " KB")
        /\ (BothRead /\ OfFlashSize # {}) => err.cls # "UnknownMcuDetected"

\* dev_id 0x410 with 32 KB of FLASH is no part of the catalog
C17_Witness ==
    /\ pc = "not_identified" /\ BothRead
    /\ err.msg = "Unknown MCU with DEV_ID: 410 with FLASH: 32 KB"

\* dev_id 0x410 with 64 KB: two candidates of 65536 bytes of FLASH
C17_WitnessIdentified ==
    /\ pc = "identified" /\ BothRead /\ reads[2].value = 64
    /\ _flash_size = 65536 /\ Len(_mcus) = 2

\* the canonical form of an expected name as the specification gives it:
\* upper-case, then 'x' at index 9 for a name of the family
Canon(n) ==
    LET u == upper(n)
    IN  IF startswith(u, _NAME) /\ Len(u) > 9 THEN [u EXCEPT ![10] = "x"]
        ELSE u

\* the entries left by the two registers whose name starts with the
\* canonical form of one of the names
OfExpected(names) ==
    {i \in OfFlashSize :
        \E j \in 1..Len(names) :
            startswith(_MCUS[i].mcu_name, Canon(names[j]))}

\* the names of the entries of the catalog whose index is in S, '/' between
Detected(S) ==
    Join("/", _get_mcu_names(SelectSeq(_MCUS, LAMBDA m :
        \E i \in S : _MCUS[i] = m)))

\* C18: with a non-empty expected_mcus list, a successful identification
\* keeps exactly the candidates left by dev_id and flash size whose name
\* starts with at least one canonicalized expected name, and fails with
\* McuNotMatch(detected, expected) when no candidate does; without the
\* list, or with an empty one, this step leaves the candidates unchanged.
C18_ExpectedFilter ==
    (McuEnded /\ BothRead /\ OfFlashSize # {}) =>
        IF Expecting THEN
            IF OfExpected(expected_mcus.names) = {} THEN
                /\ pc = "not_identified"
                /\ err = Exc("McuNotMatch",
                             "Detected MCU: " \o Detected(OfFlashSize)
                             \o ", but expected: "
                             \o Join("/", expected_mcus.names) \o ".")
            ELSE
                /\ pc = "identified"
                /\ Kept = {_MCUS[i] : i \in OfExpected(expected_mcus.names)}
        ELSE
            /\ pc = "identified"
            /\ Kept = {_MCUS[i] : i \in OfFlashSize}

\* the same list of names in upper case, and in lower case
UpperNames(names) == [j \in 1..Len(names) |-> upper(names[j])]

LowerNames(names) == [j \in 1..Len(names) |-> lower(names[j])]

\* how the identification of the same target ends when names are expected
Again(names) ==
    Stm32([given |-> TRUE, names |-> names],
          [ok |-> TRUE, value |-> reads[1].value],
          [ok |-> TRUE, value |-> reads[2].value])

\* the identification that ended selected what it selects for names
SameSelection(names) ==
    /\ Again(names).mcus = _mcus
    /\ Again(names).exc.cls = err.cls

\* C19: canonicalization upper-cases an expected name, so identification
\* does not depend on the letter case of the expected names: the names as
\* given, in lower case and in upper case select the same candidates
\* ("stm32f103c8" matches whatever "STM32F103C8" matches).
C19_CaseInsensitive ==
    (McuEnded /\ BothRead /\ OfFlashSize # {} /\ Expecting) =>
        /\ SameSelection(UpperNames(expected_mcus.names))
        /\ SameSelection(LowerNames(expected_mcus.names))

STM32F103xx == <<"S", "T", "M", "3", "2", "F", "1", "0", "3", "x", "x">>

\* scenario 6: dev_id 0x410, F_SIZE 64, expected ["STM32F103C8"], some
\* part of the catalog left by the two registers
IdentifyF103C8 ==
    /\ McuEnded /\ BothRead /\ OfFlashSize # {}
    /\ DevIdRead = 1040 /\ reads[2].value = 64
    /\ expected_mcus = [given |-> TRUE, names |-> <<STM32F103C8>>]

\* the candidates left by the two registers whose name starts with prefix
WithPrefix(prefix) ==
    {_MCUS[i] : i \in {j \in OfFlashSize :
                        startswith(_MCUS[j].mcu_name, prefix)}}

\* what C20 says, for the canonical form canon of STM32F103C8
MatchesBy(canon) ==
    IdentifyF103C8 =>
        /\ _fix_mcu_names(expected_mcus.names) = {canon}
        /\ (pc = "identified") <=> (WithPrefix(canon) # {})
        /\ pc = "identified" => Kept = WithPrefix(canon)
        /\ pc = "not_identified" => err.cls = "McuNotMatch"

\* C20 as stated: the canonical form of the expected name STM32F103C8 is
\* STM32F103xx, and identification with dev_id 0x410, flash-size register
\* value 64 and expected ["STM32F103C8"] matches the candidates by the
\* prefix STM32F103xx.
C20_CanonicalXX == MatchesBy(STM32F103xx)

\* C20 amended: the canonical form of the expected name STM32F103C8 is
\* STM32F103x8 (only the character at index 9 becomes 'x'), and
\* identification with dev_id 0x410, flash-size register value 64 and
\* expected ["STM32F103C8"] matches the candidates by the prefix
\* STM32F103x8.
C20_CanonicalX8 == MatchesBy(STM32F103x8)

\* scenario 6 on the whole pool: STM32F103x8 alone is identified
C20_Witness ==
    /\ IdentifyF103C8 /\ pc = "identified" /\ Len(_MCUS) = 5
    /\ _get_mcu_names(_mcus) = <<STM32F103x8>>
    /\ _flash_size = 65536

\* the names of a list, as a set
NamesOf(l) == {l[i] : i \in 1..Len(l)}

SvdFiles ==
    {_mcus[k].svd_file :
        k \in {j \in 1..Len(_mcus) : "svd_file" \in DOMAIN _mcus[j]}}

MemoryMapAmbiguous == McuException("Error, more regions found")

SvdAmbiguous == McuException("Specify MCU to load SVD file")

\* C22: identification succeeds whenever at least one candidate survives
\* the filters, even when several do (it never fails for ambiguity);
\* afterwards memory_regions returns the one candidate's memory map when
\* exactly one remains and raises MemoryMapAmbiguous (McuException "Error,
\* more regions found") on every request when more remain; load_svd loads
\* the one svd_file the candidates agree on and raises SvdAmbiguous
\* (McuException "Specify MCU to load SVD file") when they carry more than
\* one.
C22_AmbiguityIsLazy ==
    /\ (McuEnded /\ BothRead /\ OfFlashSize # {}) =>
        /\ ~Expecting =>
            (pc = "identified" /\ Kept = {_MCUS[i] : i \in OfFlashSize})
        /\ pc = "not_identified" => err.cls = "McuNotMatch"
    /\ pc = "identified" => Len(_mcus) >= 1
    /\ called.op = "memory_regions" =>
        IF Len(_mcus) = 1
        THEN called.exc = NoErr /\ called.ret = _mcus[1].memory
        ELSE called.exc = MemoryMapAmbiguous
    /\ called.op = "load_svd" =>
        /\ Cardinality(SvdFiles) > 1 => called.exc = SvdAmbiguous
        /\ Cardinality(SvdFiles) = 1 =>
            /\ called.exc = NoErr
            /\ svd_loaded # <<>>
        /\ Cardinality(SvdFiles) = 0 => called.exc = NoErr
    /\ svd_loaded # <<>> =>
        /\ Cardinality(SvdFiles) = 1
        /\ \A k \in 1..Len(svd_loaded) :
            \E f \in SvdFiles : svd_loaded[k] = "swd/" \o f

\* two candidates that share an svd_file: it was loaded, and the memory
\* map then asked for is refused
C22_Witness ==
    /\ pc = "identified" /\ Len(_mcus) = 2
    /\ svd_loaded = <<"swd/svd/STM32F103xx.svd">>
    /\ called.op = "memory_regions" /\ called.exc = MemoryMapAmbiguous

\* two candidates with different svd_file: load_svd is refused
C22_WitnessSvd ==
    /\ pc = "identified" /\ Len(_mcus) = 2
    /\ called.op = "load_svd" /\ called.exc = SvdAmbiguous
    /\ svd_loaded = <<>>

\* one candidate: its memory map is returned
C22_WitnessOne ==
    /\ pc = "identified" /\ Len(_mcus) = 1
    /\ called.op = "memory_regions" /\ called.exc = NoErr
    /\ get_size(called.ret, "FLASH") = _flash_size

\* the addresses the flash size may be read at: the family's register, or
\* a flash_size_reg of the candidates of the dev_id read
FlashSizeRegs ==
    IF Truthy(_FLASH_SIZE_REG) THEN {_FLASH_SIZE_REG}
    ELSE {_MCUS[i].flash_size_reg :
            i \in {j \in OfDevId(DevIdRead) :
                    "flash_size_reg" \in DOMAIN _MCUS[j]}}

\* what C23 says of the accesses of an identification that ended
C23_Accesses ==
    McuEnded =>
        /\ Len(reads) \in {1, 2}
        /\ \A k \in 1..Len(reads) : reads[k].op \in {"get_mem32", "get_mem16"}
        /\ reads[1].op = "get_mem32" /\ reads[1].address = _IDCODE_REG
        /\ Len(reads) = 2 =>
            /\ reads[1].ok
            /\ reads[2].op = "get_mem16"
            /\ reads[2].address \in FlashSizeRegs
        /\ pc = "not_identified" => (_mcus = <<>> /\ called = NoCall)

\* C23: every identification, successful or failing, accesses the target
\* only by reads and in a fixed order: one get_mem32 at IDCODE_REG, then at
\* most one get_mem16 at the flash-size register address, and no write;
\* after construction name, flash_size, memory_regions and load_svd read
\* nothing more and never change the candidates or the detected flash
\* size.
C23_ReadOnly ==
    /\ []C23_Accesses
    /\ [][pc = "identified" =>
            /\ pc' = "identified"
            /\ _mcus' = _mcus /\ _flash_size' = _flash_size
            /\ reads' = reads /\ log' = log]_vars

\* every method was asked of an identified part: two reads, no more
C23_Witness ==
    /\ pc = "identified" /\ Len(_mcus) >= 1
    /\ Len(reads) = 2 /\ reads[2].op = "get_mem16"
    /\ called.op = "load_svd" /\ Len(svd_loaded) = 2

\* a failing run: the flash-size read faulted
C23_WitnessFailed ==
    /\ pc = "not_identified" /\ Len(reads) = 2 /\ ~reads[2].ok

\* C24: the address read for the flash size is the family constant
\* FLASH_SIZE_REG when set, otherwise the one flash_size_reg value of the
\* candidates of the dev_id; when that address cannot be determined
\* uniquely (the candidates disagree on flash_size_reg, or none has the
\* field) identification fails with McuError and no flash-size read is
\* issued.
C24_FlashSizeRegister ==
    (McuEnded /\ reads[1].ok /\ OfDevId(DevIdRead) # {}) =>
        IF Cardinality(FlashSizeRegs) = 1 THEN
            /\ Len(reads) = 2
            /\ reads[2].address \in FlashSizeRegs
        ELSE
            /\ pc = "not_identified" /\ Len(reads) = 1
            /\ err.cls = "McuError"

\* C25: whenever a session is constructed with a non-zero requested SWD
\* frequency, whatever the version decoded, exactly one set-frequency
\* command (SWD_SET_FREQ or SET_COM_FREQ) was sent and acknowledged with
\* 0x80 before the enter-SWD command: a requested frequency is never
\* silently ignored.
C25_FrequencyNeverIgnored ==
    (pc = "ready" /\ Truthy(swd_frequency)) =>
        /\ Cardinality(SetFreqIdx) = 1
        /\ \A i \in SetFreqIdx :
            /\ log[i].ok /\ log[i].res[1] = 128
            /\ i < Len(log)
            /\ RankAt(Len(log)) = 7

====
